---- MODULE Spec2Model ----
(***************************************************************************)
(* Qucanft: zodiac placement, house cusps and planetary aspects.           *)
(*                                                                         *)
(* The library is a set of synchronous functions over angles.  Each       *)
(* specification below draws the arguments of one invocation in Init and   *)
(* has one action per function (or per loop step) that applies the code.   *)
(*                                                                         *)
(* Numbers.  The code computes with Python floats.  An angle is modelled   *)
(* as an integer number of units; Tick units are 0.025 degree, so that    *)
(* tenths and eighths of a degree are both whole Ticks.  Like a float,     *)
(* the model keeps more resolution close to zero than further out: a       *)
(* magnitude below one Tick is held to the unit, anything larger only to   *)
(* a whole Tick, and the result of an addition is rounded to the nearest   *)
(* value that can be held (Round).  On whole Ticks the arithmetic of the   *)
(* model is exact, as the code's is on binary fractions of a degree; the   *)
(* one input below the grid, NegTiny, stands for a negative longitude      *)
(* such as -1e-20.                                                         *)
(***************************************************************************)
EXTENDS Integers, Sequences, FiniteSets, TLC

VARIABLES
    pc,            \* "call": arguments drawn, "loop": inside a loop, "done": returned, "raised": exception
    call,          \* the invocation: [op |-> function name, ...arguments]
    ret,           \* the returned value (<<>> until the function returns)
    i,             \* calculate_all_aspects: outer loop index (0-based, as in the code)
    j,             \* calculate_all_aspects: inner loop index
    aspects_list,  \* calculate_all_aspects: the records collected so far
    evaluated,     \* calculate_all_aspects: the <<i, j>> pairs handed to find_aspects_between_planets
    stdout,        \* the lines printed so far
    heap,          \* the dict objects: heap[r] is the catalogue the reference r points to
    instances      \* the AspectsCalculator objects constructed: their flag and their self.aspects

vars == <<pc, call, ret, i, j, aspects_list, evaluated, stdout, heap, instances>>

(***************************************************************************)
(* Bounds of the model.                                                    *)
(***************************************************************************)
Tick == 4            \* units per Tick of 0.025 degree: the resolution kept below one Tick
MaxTurn == 1         \* inputs range over -MaxTurn .. MaxTurn full turns around [0, 360)
MaxInstances == 3    \* AspectsCalculator objects constructed in one run
MaxRows == 3         \* rows of the table handed to calculate_all_aspects
MaxTrines == 3       \* Trine rows of the table handed to calculate_aspect_patterns
MaxSquares == 5      \* Square rows of that table
MaxOppositions == 3  \* Opposition rows of that table

(***************************************************************************)
(* Float arithmetic.                                                       *)
(***************************************************************************)
Deg == 40 * Tick
Degrees(d) == d * Deg
Tenths(t) == 4 * t * Tick
NegTiny == -1

Abs(x) == IF x < 0 THEN -x ELSE x
Min(a, b) == IF a <= b THEN a ELSE b
Max(a, b) == IF a >= b THEN a ELSE b

\* Round to the nearest value a float of this magnitude can hold, ties to even.
Round(x) ==
    IF x > -Tick /\ x < Tick THEN x
    ELSE LET q == x \div Tick
             r == x % Tick
         IN  IF 2 * r < Tick THEN q * Tick
             ELSE IF 2 * r > Tick THEN (q + 1) * Tick
             ELSE IF q % 2 = 0 THEN q * Tick ELSE (q + 1) * Tick

\* C fmod: exact, the result takes the sign of x.
Fmod(x, m) == IF x >= 0 THEN x % m ELSE -((-x) % m)

\* Python's float x % m for m > 0: fmod, then the modulus is added to a
\* negative remainder, and that sum is rounded like any float addition.
PyMod(x, m) ==
    LET mod == Fmod(x, m)
    IN  IF mod < 0 THEN Round(mod + m) ELSE mod

\* Python's float x // m for m > 0: the quotient of x less its fmod, one
\* less when that remainder is negative.
FloorDiv(x, m) ==
    LET mod == Fmod(x, m)
    IN  IF mod < 0 THEN (x - mod) \div m - 1 ELSE (x - mod) \div m

RECURSIVE GCD(_, _)
GCD(a, b) == IF b = 0 THEN a ELSE GCD(b, a % b)

\* The quotient n / d (d > 0) as a fraction in lowest terms.
Ratio(n, d) == LET g == GCD(Abs(n), d) IN <<n \div g, d \div g>>

(***************************************************************************)
(* aspects.py: the catalogues.                                             *)
(***************************************************************************)
MAJOR_ASPECTS == <<
    [name |-> "Conjunction", degrees |-> Degrees(0),   orb |-> 8, nature |-> "Neutral"],
    [name |-> "Sextile",     degrees |-> Degrees(60),  orb |-> 6, nature |-> "Harmonious"],
    [name |-> "Square",      degrees |-> Degrees(90),  orb |-> 8, nature |-> "Challenging"],
    [name |-> "Trine",       degrees |-> Degrees(120), orb |-> 8, nature |-> "Harmonious"],
    [name |-> "Opposition",  degrees |-> Degrees(180), orb |-> 8, nature |-> "Challenging"] >>

MINOR_ASPECTS == <<
    [name |-> "Semisextile",    degrees |-> Degrees(30),  orb |-> 3, nature |-> "Mild"],
    [name |-> "Semisquare",     degrees |-> Degrees(45),  orb |-> 3, nature |-> "Challenging"],
    [name |-> "Sesquiquadrate", degrees |-> Degrees(135), orb |-> 3, nature |-> "Challenging"],
    [name |-> "Quincunx",       degrees |-> Degrees(150), orb |-> 3, nature |-> "Adjusting"],
    [name |-> "Quintile",       degrees |-> Degrees(72),  orb |-> 2, nature |-> "Creative"],
    [name |-> "Biquintile",     degrees |-> Degrees(144), orb |-> 2, nature |-> "Creative"],
    [name |-> "Septile",        degrees |-> Tenths(514),  orb |-> 1, nature |-> "Spiritual"],
    [name |-> "Novile",         degrees |-> Degrees(40),  orb |-> 1, nature |-> "Spiritual"] >>

\* The orb multipliers, in tenths (1.5 is 15).
PLANET_ORB_ADJUSTMENTS ==
    [p \in {"Sun", "Moon", "Mercury", "Venus", "Mars", "Jupiter", "Saturn",
            "Uranus", "Neptune", "Pluto"} |->
        CASE p \in {"Sun", "Moon"} -> 15
          [] p \in {"Mercury", "Venus", "Mars"} -> 10
          [] p \in {"Jupiter", "Saturn"} -> 12
          [] OTHER -> 8]

\* PLANET_ORB_ADJUSTMENTS.get(planet, 1.0)
OrbAdjustmentGet(planet) ==
    IF planet \in DOMAIN PLANET_ORB_ADJUSTMENTS THEN PLANET_ORB_ADJUSTMENTS[planet] ELSE 10

\* Variant: the minor aspects are merged in whatever the flag says.
AspectsCalculatorInit_always_minor(include_minor_aspects) ==
    MAJOR_ASPECTS \o MINOR_ASPECTS

\* AspectsCalculator.__init__: self.aspects, in the dict's insertion order.
AspectsCalculatorInit(include_minor_aspects) ==
    IF include_minor_aspects THEN MAJOR_ASPECTS \o MINOR_ASPECTS ELSE MAJOR_ASPECTS

\* The class attributes are dict objects every instance shares: at load
\* time the reference 1 is AspectsCalculator.MAJOR_ASPECTS and the reference
\* 2 is AspectsCalculator.MINOR_ASPECTS.
ClassAttributes == <<MAJOR_ASPECTS, MINOR_ASPECTS>>
MAJOR_ASPECTS_ref == 1
MINOR_ASPECTS_ref == 2

\* Variant: no new object, the reference given is the result.
dict_copy_alias(objects, ref) == [objects |-> objects, ref |-> ref]

\* dict.copy(): a new dict object with the entries of the one copied.
dict_copy(objects, ref) ==
    [objects |-> Append(objects, objects[ref]), ref |-> Len(objects) + 1]

\* dict.update(other) on the object under ref: the value of a key that is
\* there is replaced in its place, a new key goes to the end.
dict_update(objects, ref, other) ==
    LET RECURSIVE Loop(_, _)
        Loop(k, entries) ==
            IF k > Len(objects[other]) THEN entries
            ELSE LET item == objects[other][k]
                     at == {n \in 1 .. Len(entries) : entries[n].name = item.name}
                 IN  Loop(k + 1,
                          IF at = {} THEN Append(entries, item)
                          ELSE [n \in 1 .. Len(entries) |->
                                   IF n \in at THEN item ELSE entries[n]])
    IN  [objects EXCEPT ![ref] = Loop(1, objects[ref])]

\* Lines 65-68 on the heap: the objects afterwards and the new instance.
AspectsCalculator__init__(objects, include_minor_aspects) ==
    LET copied == dict_copy(objects, MAJOR_ASPECTS_ref)
    IN  [objects |-> IF include_minor_aspects
                     THEN dict_update(copied.objects, copied.ref, MINOR_ASPECTS_ref)
                     ELSE copied.objects,
         self |-> [include_minor_aspects |-> include_minor_aspects,
                   aspects |-> copied.ref]]

(***************************************************************************)
(* aspects.py: calculate_angular_distance, find_aspects_between_planets.   *)
(***************************************************************************)
\* Variant: the difference is taken without abs().
calculate_angular_distance_signed(pos1, pos2) ==
    LET p1 == PyMod(pos1, Degrees(360))
        p2 == PyMod(pos2, Degrees(360))
        diff == Round(p2 - p1)
    IN  Min(diff, Round(Degrees(360) - diff))

calculate_angular_distance(pos1, pos2) ==
    LET p1 == PyMod(pos1, Degrees(360))
        p2 == PyMod(pos2, Degrees(360))
        diff == Abs(Round(p2 - p1))
    IN  Min(diff, Round(Degrees(360) - diff))

\* Variant: only the first body's multiplier is used.
orb_adjustment_first(planet1, planet2) == OrbAdjustmentGet(planet1)

\* Variant: the two multipliers are added.
orb_adjustment_sum(planet1, planet2) ==
    OrbAdjustmentGet(planet1) + OrbAdjustmentGet(planet2)

\* max(multiplier of planet1, multiplier of planet2), in tenths.
orb_adjustment(planet1, planet2) ==
    Max(OrbAdjustmentGet(planet1), OrbAdjustmentGet(planet2))

\* base_orb degrees times a multiplier in tenths is a number of tenths of a degree.
adjusted_orb(base_orb, planet1, planet2) ==
    Tenths(base_orb * orb_adjustment(planet1, planet2))

\* Variant: a distance exactly on the edge of the orb is left out.
WithinOrb_strict(orb_difference, orb_used) == orb_difference < orb_used

\* The test of line 125.
WithinOrb(orb_difference, orb_used) == orb_difference <= orb_used

\* Variant: the share of the orb that is used up, not the share that is left.
exactness_used(orb_used, orb_difference) ==
    Ratio(orb_difference * 100, orb_used)

\* exactness, line 127, as a fraction in lowest terms.
exactness(orb_used, orb_difference) ==
    Ratio((orb_used - orb_difference) * 100, orb_used)

\* Variant: the difference keeps its sign.
orb_difference_signed(angular_distance, aspect_degrees) ==
    Round(angular_distance - aspect_degrees)

\* orb_difference, line 123.
orb_difference_abs(angular_distance, aspect_degrees) ==
    Abs(Round(angular_distance - aspect_degrees))

\* The dictionary of lines 133-145 for one catalogue entry.
AspectRecord(aspect_info, planet1, planet2, angular_distance) ==
    LET orb_used == adjusted_orb(aspect_info.orb, planet1, planet2)
        orb_difference == orb_difference_abs(angular_distance, aspect_info.degrees)
    IN  [aspect |-> aspect_info.name,
         planet1 |-> planet1,
         planet2 |-> planet2,
         degrees |-> aspect_info.degrees,
         orb_used |-> orb_used,
         orb_difference |-> orb_difference,
         exactness |-> exactness(orb_used, orb_difference),
         nature |-> aspect_info.nature,
         angular_distance |-> angular_distance]

find_aspects_between_planets(aspects, planet1, pos1, planet2, pos2) ==
    LET angular_distance == calculate_angular_distance(pos1, pos2)
        RECURSIVE Loop(_, _)
        Loop(k, aspects_found) ==
            IF k > Len(aspects) THEN aspects_found
            ELSE LET rec == AspectRecord(aspects[k], planet1, planet2, angular_distance)
                 IN  Loop(k + 1,
                          IF WithinOrb(rec.orb_difference, rec.orb_used)
                          THEN Append(aspects_found, rec)
                          ELSE aspects_found)
    IN  Loop(1, <<>>)

(***************************************************************************)
(* Inputs of the aspect functions.                                         *)
(***************************************************************************)
\* The ten bodies of the multiplier table and one body that is not in it.
Bodies == DOMAIN PLANET_ORB_ADJUSTMENTS \cup {"Chiron"}

Turns == (-MaxTurn) .. MaxTurn

\* Every 15 degrees of one turn.
CoarseGrid == {Degrees(15 * n) : n \in 0 .. 23}

\* Every pair of body names, at positions 15 degrees apart, one of the two
\* positions also outside [0, 360) and below the grid.
NamedCalls ==
    [op : {"find_aspects_between_planets"},
     include_minor_aspects : BOOLEAN,
     planet1 : Bodies,
     pos1 : {Degrees(0), NegTiny} \cup {Degrees(45) + Degrees(360) * k : k \in Turns},
     planet2 : Bodies,
     pos2 : CoarseGrid]

\* Every distance of 0 .. 180 degrees to the 0.1 degree, for one pair of bodies
\* per value of the larger multiplier.
FineCalls ==
    [op : {"find_aspects_between_planets"},
     include_minor_aspects : BOOLEAN,
     planet1 : {"Sun", "Jupiter", "Mars", "Pluto"},
     pos1 : {Degrees(0)},
     planet2 : {"Pluto", "Chiron"},
     pos2 : {Tenths(t) : t \in 0 .. 1800}]

\* Positions for calculate_angular_distance: the coarse grid and the edges
\* of the half turns, in every turn, and the longitude below the grid.
DistancePositions ==
    {g + Degrees(360) * k :
        g \in CoarseGrid \cup {Tenths(1), Tenths(1799), Tenths(1801), Tenths(3599)},
        k \in Turns} \cup {NegTiny}

DistanceCalls ==
    [op : {"calculate_angular_distance"}, pos1 : DistancePositions, pos2 : DistancePositions]

NoLoop ==
    /\ i = 0 /\ j = 0 /\ aspects_list = <<>> /\ evaluated = <<>> /\ stdout = <<>>
    /\ heap = ClassAttributes /\ instances = <<>>

InitAspects ==
    /\ pc = "call"
    /\ call \in NamedCalls \cup FineCalls \cup DistanceCalls
    /\ ret = <<>>
    /\ NoLoop

AngularDistance ==
    /\ pc = "call"
    /\ call.op = "calculate_angular_distance"
    /\ ret' = calculate_angular_distance(call.pos1, call.pos2)
    /\ pc' = "done"
    /\ UNCHANGED <<call, i, j, aspects_list, evaluated, stdout, heap, instances>>

FindAspects ==
    /\ pc = "call"
    /\ call.op = "find_aspects_between_planets"
    /\ ret' = find_aspects_between_planets(
                  AspectsCalculatorInit(call.include_minor_aspects),
                  call.planet1, call.pos1, call.planet2, call.pos2)
    /\ pc' = "done"
    /\ UNCHANGED <<call, i, j, aspects_list, evaluated, stdout, heap, instances>>

NextAspects == AngularDistance \/ FindAspects

SpecAspects == InitAspects /\ [][NextAspects]_vars

(***************************************************************************)
(* aspects.py: calculate_all_aspects, one action per step of its loops.    *)
(***************************************************************************)
\* Variant: the inner loop runs over every row again.
InnerStart_zero(outer) == 0

\* The first j of the inner loop, range(i + 1, len(planets)).
InnerStart(outer) == outer + 1

\* The planets and positions columns (0-based in the code, 1-based here).
planets == [k \in 1 .. Len(call.planetary_data.rows) |-> call.planetary_data.rows[k].Planet]
positions ==
    [k \in 1 .. Len(call.planetary_data.rows) |-> call.planetary_data.rows[k].Ecliptic_Longitude]

Rows ==
    [Planet : {"Sun", "Mars"}, Ecliptic_Longitude : {Degrees(0), Degrees(90), Degrees(97)}]

RECURSIVE SeqsUpTo(_, _)
SeqsUpTo(S, n) ==
    IF n = 0 THEN {<<>>}
    ELSE LET shorter == SeqsUpTo(S, n - 1)
         IN  shorter \cup {Append(q, x) : q \in shorter, x \in S}

\* The rows of a table that has no Ecliptic_Longitude column.
RowsWithoutLongitude == [Planet : {"Sun", "Mars"}]

\* The tables with the Ecliptic_Longitude column, and tables without it.
TablesWithLongitude == [has_Ecliptic_Longitude : {TRUE}, rows : SeqsUpTo(Rows, MaxRows)]
TablesWithoutLongitude ==
    [has_Ecliptic_Longitude : {FALSE}, rows : SeqsUpTo(RowsWithoutLongitude, 2)]

\* Variant: an empty table passes the check.
missing_column_unless_empty(planetary_data) ==
    ~planetary_data.has_Ecliptic_Longitude /\ Len(planetary_data.rows) > 0

\* aspects.py line 159, houses.py lines 288 and 335:
\* 'Ecliptic_Longitude' not in planetary_data.columns
missing_column(planetary_data) == ~planetary_data.has_Ecliptic_Longitude

AllAspectsCalls ==
    [op : {"calculate_all_aspects"},
     include_minor_aspects : BOOLEAN,
     planetary_data : TablesWithLongitude \cup TablesWithoutLongitude]

InitAllAspects ==
    /\ pc = "call"
    /\ call \in AllAspectsCalls
    /\ ret = <<>>
    /\ NoLoop

\* Lines 159-164: the column check, then the empty list and the two columns.
AllAspectsEnter ==
    /\ pc = "call"
    /\ call.op = "calculate_all_aspects"
    /\ IF ~missing_column(call.planetary_data)
       THEN /\ pc' = "loop"
            /\ i' = 0
            /\ j' = InnerStart(0)
            /\ ret' = ret
       ELSE /\ pc' = "raised"
            /\ ret' = [exception |-> "ValueError"]
            /\ UNCHANGED <<i, j>>
    /\ aspects_list' = <<>>
    /\ evaluated' = <<>>
    /\ UNCHANGED <<call, stdout, heap, instances>>

\* Lines 169-175: one pass of the inner loop body.
AllAspectsPair ==
    /\ pc = "loop"
    /\ i < Len(planets)
    /\ j < Len(planets)
    /\ aspects_list' = aspects_list \o
           find_aspects_between_planets(
               AspectsCalculatorInit(call.include_minor_aspects),
               planets[i + 1], positions[i + 1], planets[j + 1], positions[j + 1])
    /\ evaluated' = Append(evaluated, <<i, j>>)
    /\ j' = j + 1
    /\ UNCHANGED <<pc, call, ret, i, stdout, heap, instances>>

\* Line 167: the inner range is exhausted, the outer loop takes its next i.
AllAspectsNextRow ==
    /\ pc = "loop"
    /\ i < Len(planets)
    /\ j >= Len(planets)
    /\ i' = i + 1
    /\ j' = InnerStart(i + 1)
    /\ UNCHANGED <<pc, call, ret, aspects_list, evaluated, stdout, heap, instances>>

\* Line 177: the outer range is exhausted.
AllAspectsReturn ==
    /\ pc = "loop"
    /\ i >= Len(planets)
    /\ ret' = aspects_list
    /\ pc' = "done"
    /\ UNCHANGED <<call, i, j, aspects_list, evaluated, stdout, heap, instances>>

NextAllAspects ==
    AllAspectsEnter \/ AllAspectsPair \/ AllAspectsNextRow \/ AllAspectsReturn

SpecAllAspects == InitAllAspects /\ [][NextAllAspects]_vars

(***************************************************************************)
(* zodiac.py: ecliptic_to_zodiac.                                          *)
(***************************************************************************)
Sign(name, symbol, element, quality, ruler) ==
    [name |-> name, symbol |-> symbol, element |-> element, quality |-> quality,
     ruler |-> ruler]

\* The symbols are written as their code points.
ZODIAC_SIGNS == <<
    Sign("Aries",       "U+2648", "Fire",  "Cardinal", "Mars"),
    Sign("Taurus",      "U+2649", "Earth", "Fixed",    "Venus"),
    Sign("Gemini",      "U+264A", "Air",   "Mutable",  "Mercury"),
    Sign("Cancer",      "U+264B", "Water", "Cardinal", "Moon"),
    Sign("Leo",         "U+264C", "Fire",  "Fixed",    "Sun"),
    Sign("Virgo",       "U+264D", "Earth", "Mutable",  "Mercury"),
    Sign("Libra",       "U+264E", "Air",   "Cardinal", "Venus"),
    Sign("Scorpio",     "U+264F", "Water", "Fixed",    "Mars"),
    Sign("Sagittarius", "U+2650", "Fire",  "Mutable",  "Jupiter"),
    Sign("Capricorn",   "U+2651", "Earth", "Cardinal", "Saturn"),
    Sign("Aquarius",    "U+2652", "Air",   "Fixed",    "Saturn"),
    Sign("Pisces",      "U+2653", "Water", "Mutable",  "Jupiter") >>

\* Line 75: longitude = ecliptic_longitude % 360
longitude(ecliptic_longitude) == PyMod(ecliptic_longitude, Degrees(360))

\* Line 78: sign_index = int(longitude // 30)
sign_index(ecliptic_longitude) == FloorDiv(longitude(ecliptic_longitude), Degrees(30))

\* Line 79: degree_in_sign = longitude % 30
degree_in_sign(ecliptic_longitude) == PyMod(longitude(ecliptic_longitude), Degrees(30))

\* Variant: the nearest whole number, halves upwards.
py_int_nearest(x) == (2 * x + Deg) \div (2 * Deg)

\* int(x) of a float: the whole degrees of x, the fraction dropped towards zero.
py_int(x) == IF x >= 0 THEN x \div Deg ELSE -((-x) \div Deg)

\* A string is the sequence of its characters; a character outside ASCII is
\* written as its code point.
DecimalDigits == <<"0", "1", "2", "3", "4", "5", "6", "7", "8", "9">>

\* The decimal digits of a whole number n >= 0, as str(n) writes them.
RECURSIVE str_int(_)
str_int(n) ==
    IF n < 10 THEN <<DecimalDigits[n + 1]>>
    ELSE str_int(n \div 10) \o <<DecimalDigits[(n % 10) + 1]>>

\* The format specification 02d: at least two digits, filled with zeros on the left.
format_02d(n) == IF n < 10 THEN <<"0">> \o str_int(n) ELSE str_int(n)

\* Line 87: the whole degrees, the degree mark U+00B0, the minutes as 02d,
\* an apostrophe, a space and the symbol.
position_string(degree, symbol) ==
    str_int(py_int(degree)) \o <<"U+00B0">>
        \o format_02d(py_int(PyMod(degree, Deg) * 60)) \o <<"'", " ", symbol>>

\* A Python list of 12 entries takes the indices -12 .. 11 and raises IndexError otherwise.
ecliptic_to_zodiac(ecliptic_longitude) ==
    LET index == sign_index(ecliptic_longitude)
        degree == degree_in_sign(ecliptic_longitude)
        minutes == PyMod(degree, Deg) * 60
    IN  IF index \notin (-12) .. 11
        THEN [exception |-> "IndexError"]
        ELSE LET zodiac_info == ZODIAC_SIGNS[(index % 12) + 1]
             IN  [name |-> zodiac_info.name,
                  symbol |-> zodiac_info.symbol,
                  element |-> zodiac_info.element,
                  quality |-> zodiac_info.quality,
                  ruler |-> zodiac_info.ruler,
                  degree |-> degree,
                  absolute_degree |-> longitude(ecliptic_longitude),
                  degree_minutes |-> py_int(minutes),
                  degree_seconds |-> py_int(PyMod(minutes, Deg) * 60),
                  position_string |-> position_string(degree, zodiac_info.symbol)]

Raised(result) == "exception" \in DOMAIN result

\* Every 0.1 degree of one turn.
TickGrid == {Tenths(t) : t \in 0 .. 3599}

\* Every eighth of a degree of one turn: binary fractions, on which the
\* code's float arithmetic is exact.
EighthGrid == {(Degrees(1) * e) \div 8 : e \in 0 .. 2879}

\* L + 360 * k as the caller's float addition, for every L on the grids, the
\* longitude below them, and every k.
ZodiacCalls ==
    {[op |-> "ecliptic_to_zodiac",
      ecliptic_longitude |-> Round(base + Degrees(360) * k),
      base |-> base,
      turns |-> k] : base \in TickGrid \cup EighthGrid \cup {NegTiny}, k \in Turns}

InitZodiac ==
    /\ pc = "call"
    /\ call \in ZodiacCalls
    /\ ret = <<>>
    /\ NoLoop

EclipticToZodiac ==
    /\ pc = "call"
    /\ call.op = "ecliptic_to_zodiac"
    /\ ret' = ecliptic_to_zodiac(call.ecliptic_longitude)
    /\ pc' = IF Raised(ret') THEN "raised" ELSE "done"
    /\ UNCHANGED <<call, i, j, aspects_list, evaluated, stdout, heap, instances>>

NextZodiac == EclipticToZodiac

SpecZodiac == InitZodiac /\ [][NextZodiac]_vars

(***************************************************************************)
(* zodiac.py: get_zodiac_sign_info, get_zodiac_compatibility.              *)
(***************************************************************************)
\* The spellings the callers of the model pass as sign names: the twelve
\* names of the table, two in another case, and a name of no sign.
SignNames ==
    {ZODIAC_SIGNS[s].name : s \in 1 .. 12} \cup {"aries", "LEO", "Ophiuchus"}

\* str.lower() on those spellings and on the spellings of HouseSystemNames.
lower(name) ==
    CASE name \in {"Aries", "aries"} -> "aries"
      [] name = "Taurus" -> "taurus"
      [] name = "Gemini" -> "gemini"
      [] name = "Cancer" -> "cancer"
      [] name \in {"Leo", "LEO"} -> "leo"
      [] name = "Virgo" -> "virgo"
      [] name = "Libra" -> "libra"
      [] name = "Scorpio" -> "scorpio"
      [] name = "Sagittarius" -> "sagittarius"
      [] name = "Capricorn" -> "capricorn"
      [] name = "Aquarius" -> "aquarius"
      [] name = "Pisces" -> "pisces"
      [] name = "Ophiuchus" -> "ophiuchus"
      [] name \in {"equal", "Equal"} -> "equal"
      [] name \in {"whole", "WHOLE"} -> "whole"
      [] name \in {"placidus", "Placidus"} -> "placidus"
      [] name \in {"koch", "Koch"} -> "koch"
      [] name = "campanus" -> "campanus"
      [] name = "" -> ""

None == <<>>

\* "not x" of a dictionary or None.
IsFalsy(x) == DOMAIN x = {}

\* Lines 146-149: the first sign of the table with that name, or None.
get_zodiac_sign_info(sign_name) ==
    LET RECURSIVE Loop(_)
        Loop(s) ==
            IF s > Len(ZODIAC_SIGNS) THEN None
            ELSE IF lower(ZODIAC_SIGNS[s].name) = lower(sign_name) THEN ZODIAC_SIGNS[s]
            ELSE Loop(s + 1)
    IN  Loop(1)

\* Lines 167-178.
element_compatibility ==
    (<<"Fire", "Fire">> :> "High") @@ (<<"Fire", "Air">> :> "High") @@
    (<<"Fire", "Water">> :> "Low") @@ (<<"Fire", "Earth">> :> "Medium") @@
    (<<"Earth", "Earth">> :> "High") @@ (<<"Earth", "Water">> :> "High") @@
    (<<"Earth", "Air">> :> "Low") @@ (<<"Air", "Air">> :> "High") @@
    (<<"Air", "Water">> :> "Low") @@ (<<"Water", "Water">> :> "High")

\* Lines 187-194.
quality_compatibility ==
    (<<"Cardinal", "Cardinal">> :> "Medium") @@ (<<"Cardinal", "Fixed">> :> "Low") @@
    (<<"Cardinal", "Mutable">> :> "High") @@ (<<"Fixed", "Fixed">> :> "Low") @@
    (<<"Fixed", "Mutable">> :> "Medium") @@ (<<"Mutable", "Mutable">> :> "High")

\* Variant: the pair is looked up in the order given only.
compatibility_pair_as_given(table, first, second) == <<first, second>>

\* Lines 180-182 and 196-198: the pair as given, or reversed if the table
\* has no entry for it.
compatibility_pair(table, first, second) ==
    IF <<first, second>> \notin DOMAIN table THEN <<second, first>> ELSE <<first, second>>

\* dict.get(key, default)
dict_get(table, key, default) == IF key \in DOMAIN table THEN table[key] ELSE default

\* Line 203.
comp_scores == [High |-> 3, Medium |-> 2, Low |-> 1]

\* Variant: the bands are open at their lower ends.
overall_compatibility_open(element_comp, quality_comp) ==
    LET twice_avg_score == comp_scores[element_comp] + comp_scores[quality_comp]
    IN  IF twice_avg_score > 5 THEN "High"
        ELSE IF twice_avg_score > 3 THEN "Medium"
        ELSE "Low"

\* Lines 204-211.  avg_score is the sum halved, so avg_score >= 2.5 is
\* sum >= 5 and avg_score >= 1.5 is sum >= 3.
overall_compatibility(element_comp, quality_comp) ==
    LET twice_avg_score == comp_scores[element_comp] + comp_scores[quality_comp]
    IN  IF twice_avg_score >= 5 THEN "High"
        ELSE IF twice_avg_score >= 3 THEN "Medium"
        ELSE "Low"

get_zodiac_compatibility(sign1, sign2) ==
    LET info1 == get_zodiac_sign_info(sign1)
        info2 == get_zodiac_sign_info(sign2)
    IN  IF IsFalsy(info1) \/ IsFalsy(info2)
        THEN [compatibility |-> "Unknown", reason |-> "Invalid zodiac sign"]
        ELSE LET element_pair ==
                     compatibility_pair(element_compatibility, info1.element, info2.element)
                 element_comp == dict_get(element_compatibility, element_pair, "Medium")
                 quality_pair ==
                     compatibility_pair(quality_compatibility, info1.quality, info2.quality)
                 quality_comp == dict_get(quality_compatibility, quality_pair, "Medium")
             IN  [sign1 |-> sign1,
                  sign2 |-> sign2,
                  element_compatibility |-> element_comp,
                  quality_compatibility |-> quality_comp,
                  overall_compatibility |-> overall_compatibility(element_comp, quality_comp),
                  description |-> <<sign1, " (", info1.element, ", ", info1.quality,
                                    ") and ", sign2, " (", info2.element, ", ",
                                    info2.quality, ")">>]

CompatibilityCalls ==
    {[op |-> "get_zodiac_compatibility", sign1 |-> a, sign2 |-> b] :
        a \in SignNames, b \in SignNames}

SignInfoCalls == {[op |-> "get_zodiac_sign_info", sign_name |-> a] : a \in SignNames}

InitCompatibility ==
    /\ pc = "call"
    /\ call \in CompatibilityCalls \cup SignInfoCalls
    /\ ret = <<>>
    /\ NoLoop

GetZodiacSignInfo ==
    /\ pc = "call"
    /\ call.op = "get_zodiac_sign_info"
    /\ ret' = get_zodiac_sign_info(call.sign_name)
    /\ pc' = "done"
    /\ UNCHANGED <<call, i, j, aspects_list, evaluated, stdout, heap, instances>>

GetZodiacCompatibility ==
    /\ pc = "call"
    /\ call.op = "get_zodiac_compatibility"
    /\ ret' = get_zodiac_compatibility(call.sign1, call.sign2)
    /\ pc' = "done"
    /\ UNCHANGED <<call, i, j, aspects_list, evaluated, stdout, heap, instances>>

NextCompatibility == GetZodiacSignInfo \/ GetZodiacCompatibility

SpecCompatibility == InitCompatibility /\ [][NextCompatibility]_vars

(***************************************************************************)
(* houses.py: calculate_equal_houses, determine_planet_house.              *)
(***************************************************************************)
\* Variant: the offset is house_num * 30.
equal_cusp_from_zero(ascendant, house_num) ==
    PyMod(Round(ascendant + house_num * Degrees(30)), Degrees(360))

\* Line 121: cusp = (ascendant + (house_num - 1) * 30) % 360
equal_cusp(ascendant, house_num) ==
    PyMod(Round(ascendant + (house_num - 1) * Degrees(30)), Degrees(360))

calculate_equal_houses(ascendant) ==
    [house_num \in 1 .. 12 |-> equal_cusp(ascendant, house_num)]

\* Variant: a span is open at its start and closed at its end.
InHouse_end_closed(planet_longitude, cusp_current, cusp_next) ==
    IF cusp_current > cusp_next
    THEN planet_longitude > cusp_current \/ planet_longitude <= cusp_next
    ELSE cusp_current < planet_longitude /\ planet_longitude <= cusp_next

\* Lines 263-270: the membership test of one house.
InHouse(planet_longitude, cusp_current, cusp_next) ==
    IF cusp_current > cusp_next
    THEN planet_longitude >= cusp_current \/ planet_longitude < cusp_next
    ELSE cusp_current <= planet_longitude /\ planet_longitude < cusp_next

determine_planet_house(planet_longitude, house_cusps) ==
    LET normalized == PyMod(planet_longitude, Degrees(360))
        RECURSIVE Loop(_)
        Loop(house_num) ==
            IF house_num > 12 THEN 1
            ELSE LET cusp_current == house_cusps[house_num]
                     cusp_next == IF house_num < 12 THEN house_cusps[house_num + 1]
                                  ELSE house_cusps[1]
                 IN  IF InHouse(normalized, cusp_current, cusp_next)
                     THEN house_num
                     ELSE Loop(house_num + 1)
    IN  Loop(1)

\* Variant: the quotient is cut off towards zero.
calculate_whole_sign_houses_truncating(ascendant) ==
    LET floor == ascendant \div Degrees(30)
        ascendant_sign_start ==
            (IF ascendant < 0 /\ ascendant % Degrees(30) # 0 THEN floor + 1 ELSE floor)
                * Degrees(30)
    IN  [house_num \in 1 .. 12 |->
            (ascendant_sign_start + (house_num - 1) * Degrees(30)) % Degrees(360)]

\* Lines 137-144.  ascendant_sign_start is a Python int, and so are the cusps.
calculate_whole_sign_houses(ascendant) ==
    LET ascendant_sign_start == FloorDiv(ascendant, Degrees(30)) * Degrees(30)
    IN  [house_num \in 1 .. 12 |->
            (ascendant_sign_start + (house_num - 1) * Degrees(30)) % Degrees(360)]

\* factor * angle_diff for factor = thirds / 3: the nearest value that can be held.
times_factor(thirds, angle_diff) ==
    LET product == thirds * angle_diff
        q == product \div 3
    IN  Round(IF 2 * (product % 3) >= 3 THEN q + 1 ELSE q)

\* Lines 180, 187, 194, 201 with 181-182: the angle from one angular cusp to
\* the next, taken the short way round.
angle_diff(from, to) ==
    LET forward == PyMod(Round(to - from), Degrees(360))
    IN  IF forward > Degrees(180) THEN Round(Degrees(360) - forward) ELSE forward

\* Variant: the ascendant and the midheaven are normalised like the other cusps.
calculate_placidus_houses_normalised(ascendant, midheaven, latitude) ==
    LET house1 == PyMod(ascendant, Degrees(360))
        house10 == PyMod(midheaven, Degrees(360))
        house4 == PyMod(Round(midheaven + Degrees(180)), Degrees(360))
        house7 == PyMod(Round(ascendant + Degrees(180)), Degrees(360))
        Between(start, finish, thirds) ==
            PyMod(Round(start + times_factor(thirds, angle_diff(start, finish))),
                  Degrees(360))
    IN  [house_num \in 1 .. 12 |->
            CASE house_num = 1 -> house1
              [] house_num = 4 -> house4
              [] house_num = 7 -> house7
              [] house_num = 10 -> house10
              [] house_num \in {2, 3} -> Between(house1, house10, house_num - 1)
              [] house_num \in {5, 6} -> Between(house10, house7, house_num - 4)
              [] house_num \in {8, 9} -> Between(house7, house4, house_num - 7)
              [] house_num \in {11, 12} -> Between(house4, house1, house_num - 10)]

\* Lines 146-208.  latitude and obliquity are not used by the code.
calculate_placidus_houses(ascendant, midheaven, latitude) ==
    LET house4 == PyMod(Round(midheaven + Degrees(180)), Degrees(360))
        house7 == PyMod(Round(ascendant + Degrees(180)), Degrees(360))
        Between(start, finish, thirds) ==
            PyMod(Round(start + times_factor(thirds, angle_diff(start, finish))),
                  Degrees(360))
    IN  [house_num \in 1 .. 12 |->
            CASE house_num = 1 -> ascendant
              [] house_num = 4 -> house4
              [] house_num = 7 -> house7
              [] house_num = 10 -> midheaven
              [] house_num \in {2, 3} -> Between(ascendant, midheaven, house_num - 1)
              [] house_num \in {5, 6} -> Between(midheaven, house7, house_num - 4)
              [] house_num \in {8, 9} -> Between(house7, house4, house_num - 7)
              [] house_num \in {11, 12} -> Between(house4, ascendant, house_num - 10)]

\* An optional argument is None or <<value>>.
IsNone(argument) == argument = None

\* Variant: only the midheaven is required.
placidus_arguments_missing_midheaven_only(midheaven, latitude) == IsNone(midheaven)

\* Line 236: midheaven is None or latitude is None
placidus_arguments_missing(midheaven, latitude) == IsNone(midheaven) \/ IsNone(latitude)

\* The two ways a call ends: with a value, or with an exception.
Returns(value) == [raised |-> FALSE, value |-> value]
Raises(exception) == [raised |-> TRUE, value |-> [exception |-> exception]]

\* Variant: a system that is not implemented is refused.
calculate_houses_refusing(ascendant, midheaven, latitude, house_system) ==
    LET system == lower(house_system)
    IN  IF system = "equal" THEN Returns(calculate_equal_houses(ascendant))
        ELSE IF system = "whole" THEN Returns(calculate_whole_sign_houses(ascendant))
        ELSE IF system = "placidus" /\ ~placidus_arguments_missing(midheaven, latitude)
        THEN Returns(calculate_placidus_houses(ascendant, midheaven[1], latitude[1]))
        ELSE Raises("ValueError")

\* Lines 229-240.
calculate_houses(ascendant, midheaven, latitude, house_system) ==
    LET system == lower(house_system)
    IN  IF system = "equal" THEN Returns(calculate_equal_houses(ascendant))
        ELSE IF system = "whole" THEN Returns(calculate_whole_sign_houses(ascendant))
        ELSE IF system = "placidus"
        THEN IF placidus_arguments_missing(midheaven, latitude)
             THEN Raises("ValueError")
             ELSE Returns(calculate_placidus_houses(ascendant, midheaven[1], latitude[1]))
        ELSE Returns(calculate_equal_houses(ascendant))

\* Line 239: the lines calculate_houses prints.
calculate_houses_prints(house_system) ==
    IF lower(house_system) \in {"equal", "whole", "placidus"} THEN <<>>
    ELSE << <<"Warning: House system '", lower(house_system),
              "' not implemented, using Equal House">> >>

HouseSystemNames ==
    {"equal", "Equal", "whole", "WHOLE", "placidus", "Placidus", "koch", "campanus", ""}

\* Every 15 degrees of one turn, and the value below the grid.
CoarseAngles == {Degrees(15 * n) : n \in 0 .. 23} \cup {NegTiny}

HousesCalls ==
    {[op |-> "calculate_houses", ascendant |-> asc, midheaven |-> mc, latitude |-> lat,
      house_system |-> name] :
        asc \in CoarseAngles,
        mc \in {None, <<Degrees(0)>>, <<Degrees(105)>>, <<Degrees(270)>>},
        lat \in {None, <<Degrees(0)>>, <<Degrees(52)>>},
        name \in HouseSystemNames}

EqualHousesCalls ==
    {[op |-> "calculate_equal_houses", ascendant |-> Round(base + Degrees(360) * k)] :
        base \in TickGrid \cup {NegTiny}, k \in Turns}

\* Every 2.5 degrees of one turn, and the ascendant below the grid.
AscendantGrid == {Tenths(25 * n) : n \in 0 .. 143} \cup {NegTiny}

\* The cusps of the two systems that need the ascendant only.
SystemCusps(house_system, ascendant) ==
    IF house_system = "equal" THEN calculate_equal_houses(ascendant)
    ELSE calculate_whole_sign_houses(ascendant)

\* The charts whose cusps determine_planet_house is given: the Equal House
\* system from every 2.5 degrees, the Whole Sign system, which depends on the
\* sign of the ascendant only, from every 15 degrees.
Charts ==
    ({"equal"} \X AscendantGrid) \cup ({"whole"} \X CoarseAngles)

\* A longitude on a cusp of the Equal House or Whole Sign system, one Tick to
\* either side of it or in the middle of its house, in every turn, and the
\* longitude below the grid.
PlanetHouseCalls ==
    {[op |-> "determine_planet_house",
      planet_longitude |-> SystemCusps(chart[1], chart[2])[n] + off + Degrees(360) * k,
      house_cusps |-> SystemCusps(chart[1], chart[2]),
      house_system |-> chart[1],
      ascendant |-> chart[2]] :
        chart \in Charts, n \in 1 .. 12, off \in {-Tick, 0, Tick, Degrees(15)},
        k \in Turns}
    \cup
    {[op |-> "determine_planet_house",
      planet_longitude |-> NegTiny,
      house_cusps |-> SystemCusps(chart[1], chart[2]),
      house_system |-> chart[1],
      ascendant |-> chart[2]] : chart \in Charts}

\* An ascendant and a midheaven every 15 degrees of one turn, below the
\* grid, or outside [0, 360).
PlacidusAngles == CoarseAngles \cup {Degrees(-45), Degrees(375)}

PlacidusCalls ==
    [op : {"calculate_placidus_houses"},
     ascendant : PlacidusAngles,
     midheaven : PlacidusAngles,
     latitude : {Degrees(52)}]

\* An ascendant every 2.5 degrees or one Tick to either side of the start of
\* a sign, in every turn, and the ascendant below the grid.
WholeSignCalls ==
    {[op |-> "calculate_whole_sign_houses", ascendant |-> Round(base + Degrees(360) * k)] :
        base \in AscendantGrid \cup {Degrees(30 * n) + off : n \in 0 .. 11, off \in {-Tick, Tick}},
        k \in Turns}

InitHouses ==
    /\ pc = "call"
    /\ call \in EqualHousesCalls \cup PlanetHouseCalls \cup HousesCalls
                 \cup PlacidusCalls \cup WholeSignCalls
    /\ ret = <<>>
    /\ NoLoop

EqualHouses ==
    /\ pc = "call"
    /\ call.op = "calculate_equal_houses"
    /\ ret' = calculate_equal_houses(call.ascendant)
    /\ pc' = "done"
    /\ UNCHANGED <<call, i, j, aspects_list, evaluated, stdout, heap, instances>>

DeterminePlanetHouse ==
    /\ pc = "call"
    /\ call.op = "determine_planet_house"
    /\ ret' = determine_planet_house(call.planet_longitude, call.house_cusps)
    /\ pc' = "done"
    /\ UNCHANGED <<call, i, j, aspects_list, evaluated, stdout, heap, instances>>

CalculateHouses ==
    /\ pc = "call"
    /\ call.op = "calculate_houses"
    /\ LET outcome == calculate_houses(call.ascendant, call.midheaven, call.latitude,
                                       call.house_system)
       IN  /\ ret' = outcome.value
           /\ pc' = IF outcome.raised THEN "raised" ELSE "done"
    /\ stdout' = stdout \o calculate_houses_prints(call.house_system)
    /\ UNCHANGED <<call, i, j, aspects_list, evaluated, heap, instances>>

WholeSignHouses ==
    /\ pc = "call"
    /\ call.op = "calculate_whole_sign_houses"
    /\ ret' = calculate_whole_sign_houses(call.ascendant)
    /\ pc' = "done"
    /\ UNCHANGED <<call, i, j, aspects_list, evaluated, stdout, heap, instances>>

PlacidusHouses ==
    /\ pc = "call"
    /\ call.op = "calculate_placidus_houses"
    /\ ret' = calculate_placidus_houses(call.ascendant, call.midheaven, call.latitude)
    /\ pc' = "done"
    /\ UNCHANGED <<call, i, j, aspects_list, evaluated, stdout, heap, instances>>

NextHouses ==
    \/ EqualHouses
    \/ DeterminePlanetHouse
    \/ CalculateHouses
    \/ WholeSignHouses
    \/ PlacidusHouses

SpecHouses == InitHouses /\ [][NextHouses]_vars

(***************************************************************************)
(* houses.py: add_house_positions, calculate_house_strengths.              *)
(***************************************************************************)
\* Lines 35-48.
HOUSE_MEANINGS == <<
    [name |-> "Ascendant/Self", theme |-> "Identity, appearance, first impressions"],
    [name |-> "Resources", theme |-> "Money, possessions, values, self-worth"],
    [name |-> "Communication", theme |-> "Communication, siblings, short trips, learning"],
    [name |-> "Home/Family", theme |-> "Home, family, roots, emotional foundation"],
    [name |-> "Creativity", theme |-> "Creativity, romance, children, self-expression"],
    [name |-> "Work/Health", theme |-> "Work, health, daily routines, service"],
    [name |-> "Partnerships", theme |-> "Marriage, partnerships, open enemies"],
    [name |-> "Transformation", theme |-> "Death, rebirth, shared resources, occult"],
    [name |-> "Philosophy", theme |-> "Higher learning, philosophy, long journeys"],
    [name |-> "Career/Status", theme |-> "Career, reputation, public standing"],
    [name |-> "Friends/Goals", theme |-> "Friends, groups, hopes, wishes"],
    [name |-> "Subconscious", theme |-> "Subconscious, karma, hidden enemies, sacrifice"] >>

\* Lines 288-306: a copy of the table with the columns House and House_Meaning.
add_house_positions(planetary_data, house_cusps) ==
    IF missing_column(planetary_data) THEN Raises("ValueError")
    ELSE LET rows == planetary_data.rows
             house_num(row) == determine_planet_house(row.Ecliptic_Longitude, house_cusps)
         IN  Returns([has_Ecliptic_Longitude |-> TRUE,
                      rows |-> [k \in 1 .. Len(rows) |->
                                   [Planet |-> rows[k].Planet,
                                    Ecliptic_Longitude |-> rows[k].Ecliptic_Longitude,
                                    House |-> house_num(rows[k]),
                                    House_Meaning |->
                                        HOUSE_MEANINGS[house_num(rows[k])].theme]]])

\* Lines 335-344: every house starts at 0 and each row adds one to its house.
calculate_house_strengths(planetary_data, house_cusps) ==
    IF missing_column(planetary_data) THEN Raises("ValueError")
    ELSE LET rows == planetary_data.rows
             RECURSIVE Loop(_, _)
             Loop(k, house_counts) ==
                 IF k > Len(rows) THEN house_counts
                 ELSE LET house_num ==
                              determine_planet_house(rows[k].Ecliptic_Longitude, house_cusps)
                      IN  Loop(k + 1, [house_counts EXCEPT ![house_num] = @ + 1])
         IN  Returns(Loop(1, [n \in 1 .. 12 |-> 0]))

HouseTableCalls ==
    [op : {"add_house_positions", "calculate_house_strengths"},
     planetary_data : TablesWithLongitude \cup TablesWithoutLongitude,
     house_cusps : {calculate_equal_houses(Degrees(0)), calculate_equal_houses(Degrees(95)),
                    calculate_whole_sign_houses(Degrees(95))}]

InitHouseTables ==
    /\ pc = "call"
    /\ call \in HouseTableCalls
    /\ ret = <<>>
    /\ NoLoop

AddHousePositions ==
    /\ pc = "call"
    /\ call.op = "add_house_positions"
    /\ LET outcome == add_house_positions(call.planetary_data, call.house_cusps)
       IN  /\ ret' = outcome.value
           /\ pc' = IF outcome.raised THEN "raised" ELSE "done"
    /\ UNCHANGED <<call, i, j, aspects_list, evaluated, stdout, heap, instances>>

CalculateHouseStrengths ==
    /\ pc = "call"
    /\ call.op = "calculate_house_strengths"
    /\ LET outcome == calculate_house_strengths(call.planetary_data, call.house_cusps)
       IN  /\ ret' = outcome.value
           /\ pc' = IF outcome.raised THEN "raised" ELSE "done"
    /\ UNCHANGED <<call, i, j, aspects_list, evaluated, stdout, heap, instances>>

NextHouseTables == AddHousePositions \/ CalculateHouseStrengths

SpecHouseTables == InitHouseTables /\ [][NextHouseTables]_vars

(***************************************************************************)
(* The functions that take a table of positions.                           *)
(***************************************************************************)
InitTables == InitAllAspects \/ InitHouseTables

NextTables == NextAllAspects \/ NextHouseTables

SpecTables == InitTables /\ [][NextTables]_vars

(***************************************************************************)
(* aspects.py: get_strongest_aspects, export_aspects_summary.              *)
(***************************************************************************)
\* Records that find_aspects_between_planets returns.
AspectRowValues ==
    {find_aspects_between_planets(MAJOR_ASPECTS, q[1], Degrees(0), q[2], Degrees(q[3]))[1] :
        q \in {<<"Sun", "Moon", 0>>, <<"Sun", "Moon", 3>>, <<"Mars", "Venus", 90>>,
               <<"Mars", "Venus", 93>>, <<"Mercury", "Jupiter", 121>>,
               <<"Mercury", "Jupiter", 177>>}}

\* pd.DataFrame(aspects_list): the rows under the index labels 0, 1, 2...
DataFrame(records) ==
    [k \in 1 .. Len(records) |-> [index |-> k - 1, row |-> records[k]]]

AspectTables == {DataFrame(records) : records \in SeqsUpTo(AspectRowValues, MaxRows)}

\* Variant: the rows are left in the order of the table.
sort_values_orb_difference_kept(aspects_df) == {aspects_df}

\* aspects_df.sort_values('orb_difference'): the rows in ascending order of
\* the column.  The default sort is not stable, so the order of rows with
\* equal values is any order.
sort_values_orb_difference(aspects_df) ==
    LET n == Len(aspects_df)
        orders == {p \in [1 .. n -> 1 .. n] : \A a, b \in 1 .. n : a # b => p[a] # p[b]}
    IN  {[k \in 1 .. n |-> aspects_df[p[k]]] : p \in
            {p \in orders : \A k \in 1 .. n - 1 :
                aspects_df[p[k]].row.orb_difference
                    <= aspects_df[p[k + 1]].row.orb_difference}}

\* DataFrame.head(n): the first n rows, or for a negative n all rows except
\* the last -n.
head(df, n) ==
    IF n >= 0 THEN SubSeq(df, 1, Min(n, Len(df)))
    ELSE SubSeq(df, 1, Max(Len(df) + n, 0))

\* Lines 223-229: the tables the call can return.
get_strongest_aspects(aspects_df, limit) ==
    IF Len(aspects_df) = 0 THEN {aspects_df}
    ELSE {head(sorted_aspects, limit) :
            sorted_aspects \in sort_values_orb_difference(aspects_df)}

StrongestCalls ==
    [op : {"get_strongest_aspects"},
     aspects_df : AspectTables,
     limit : (-1) .. (MaxRows + 1)]

\* df[column].value_counts().to_dict(): each value of the column with the
\* number of rows that have it.
value_counts(df, column) ==
    [v \in {df[k].row[column] : k \in 1 .. Len(df)} |->
        Cardinality({k \in 1 .. Len(df) : df[k].row[column] = v})]

\* aspects_df['orb_difference'].min()
min_orb_difference(df) ==
    CHOOSE m \in {df[k].row.orb_difference : k \in 1 .. Len(df)} :
        \A k \in 1 .. Len(df) : m <= df[k].row.orb_difference

\* Variant: the label of the first row with the largest value.
idxmax_orb_difference(df) ==
    LET first == CHOOSE k \in 1 .. Len(df) :
                     /\ \A l \in 1 .. Len(df) :
                            df[l].row.orb_difference <= df[k].row.orb_difference
                     /\ \A l \in 1 .. k - 1 :
                            df[l].row.orb_difference < df[k].row.orb_difference
    IN  df[first].index

\* aspects_df['orb_difference'].idxmin(): the label of the first row with
\* the smallest value.
idxmin_orb_difference(df) ==
    LET first == CHOOSE k \in 1 .. Len(df) :
                     /\ df[k].row.orb_difference = min_orb_difference(df)
                     /\ \A l \in 1 .. k - 1 :
                            df[l].row.orb_difference # min_orb_difference(df)
    IN  df[first].index

\* aspects_df.loc[label]: the row under a label (the labels are distinct).
loc(df, label) == df[CHOOSE k \in 1 .. Len(df) : df[k].index = label].row

\* Lines 344-358.  A dictionary is a function of its keys, an empty one <<>>.
export_aspects_summary(aspects_df) ==
    IF Len(aspects_df) = 0
    THEN [total_aspects |-> 0, by_nature |-> <<>>, by_type |-> <<>>]
    ELSE LET strongest == loc(aspects_df, idxmin_orb_difference(aspects_df))
         IN  [total_aspects |-> Len(aspects_df),
              by_nature |-> value_counts(aspects_df, "nature"),
              by_type |-> value_counts(aspects_df, "aspect"),
              strongest_aspect |->
                  [aspect |-> strongest.aspect,
                   planets |-> <<strongest.planet1, " - ", strongest.planet2>>,
                   orb |-> min_orb_difference(aspects_df)]]

\* Tables as calculate_all_aspects builds them, and the same sorted.
SummaryCalls ==
    [op : {"export_aspects_summary"},
     aspects_df : AspectTables \cup
                  UNION {sort_values_orb_difference(df) : df \in AspectTables}]

InitAspectTables ==
    /\ pc = "call"
    /\ call \in StrongestCalls \cup SummaryCalls
    /\ ret = <<>>
    /\ NoLoop

GetStrongestAspects ==
    /\ pc = "call"
    /\ call.op = "get_strongest_aspects"
    /\ ret' \in get_strongest_aspects(call.aspects_df, call.limit)
    /\ pc' = "done"
    /\ UNCHANGED <<call, i, j, aspects_list, evaluated, stdout, heap, instances>>

ExportAspectsSummary ==
    /\ pc = "call"
    /\ call.op = "export_aspects_summary"
    /\ ret' = export_aspects_summary(call.aspects_df)
    /\ pc' = "done"
    /\ UNCHANGED <<call, i, j, aspects_list, evaluated, stdout, heap, instances>>

NextAspectTables == GetStrongestAspects \/ ExportAspectsSummary

SpecAspectTables == InitAspectTables /\ [][NextAspectTables]_vars

(***************************************************************************)
(* aspects.py: AspectsCalculator objects, constructed and queried in any   *)
(* order.                                                                  *)
(***************************************************************************)
QueryArguments ==
    [planet1 : {"Sun"}, pos1 : {Degrees(0)}, planet2 : {"Moon", "Mars"},
     pos2 : {Degrees(0), Degrees(45), Degrees(72), Degrees(90), Degrees(150)}]

InitCalculators ==
    /\ pc = "ready"
    /\ call = <<>>
    /\ ret = <<>>
    /\ NoLoop

\* AspectsCalculator(include_minor_aspects)
Construct ==
    /\ pc \in {"ready", "queried"}
    /\ Len(instances) < MaxInstances
    /\ \E include_minor_aspects \in BOOLEAN :
          LET made == AspectsCalculator__init__(heap, include_minor_aspects)
          IN  /\ heap' = made.objects
              /\ instances' = Append(instances, made.self)
    /\ UNCHANGED <<pc, call, ret, i, j, aspects_list, evaluated, stdout>>

\* find_aspects_between_planets on one of the objects constructed so far.
Query ==
    /\ pc \in {"ready", "queried"}
    /\ \E self \in 1 .. Len(instances), arguments \in QueryArguments :
          /\ call' = [op |-> "find_aspects_between_planets",
                       self |-> self,
                       constructed |-> Len(instances),
                       arguments |-> arguments]
          /\ ret' = find_aspects_between_planets(
                        heap[instances[self].aspects], arguments.planet1, arguments.pos1,
                        arguments.planet2, arguments.pos2)
    /\ pc' = "queried"
    /\ UNCHANGED <<i, j, aspects_list, evaluated, stdout, heap, instances>>

NextCalculators == Construct \/ Query

SpecCalculators == InitCalculators /\ [][NextCalculators]_vars

(***************************************************************************)
(* zodiac.py: calculate_midpoint.                                          *)
(***************************************************************************)
\* x / 2: halving a float is exact.  The positions of the model are whole
\* tenths of a degree, so their sums are an even number of units.
half(x) == x \div 2

\* Variant: the mean of the two positions, whatever their difference.
calculate_midpoint_mean(pos1, pos2) ==
    LET p1 == PyMod(pos1, Degrees(360))
        p2 == PyMod(pos2, Degrees(360))
    IN  PyMod(half(Round(p1 + p2)), Degrees(360))

\* Variant: the positions are used as they are given.
calculate_midpoint_as_given(pos1, pos2) ==
    LET diff == Abs(Round(pos2 - pos1))
        midpoint == IF diff > Degrees(180)
                    THEN half(Round(Round(pos1 + pos2) + Degrees(360)))
                    ELSE half(Round(pos1 + pos2))
    IN  PyMod(midpoint, Degrees(360))

\* Lines 236-248.
calculate_midpoint(pos1, pos2) ==
    LET p1 == PyMod(pos1, Degrees(360))
        p2 == PyMod(pos2, Degrees(360))
        diff == Abs(Round(p2 - p1))
        midpoint == IF diff > Degrees(180)
                    THEN half(Round(Round(p1 + p2) + Degrees(360)))
                    ELSE half(Round(p1 + p2))
    IN  PyMod(midpoint, Degrees(360))

\* Two positions, each on the coarse grid or at the edge of a half turn, in
\* every turn, or below the grid.
MidpointCalls ==
    [op : {"calculate_midpoint"}, pos1 : DistancePositions, pos2 : DistancePositions]

InitMidpoint ==
    /\ pc = "call"
    /\ call \in MidpointCalls
    /\ ret = <<>>
    /\ NoLoop

CalculateMidpoint ==
    /\ pc = "call"
    /\ call.op = "calculate_midpoint"
    /\ ret' = calculate_midpoint(call.pos1, call.pos2)
    /\ pc' = "done"
    /\ UNCHANGED <<call, i, j, aspects_list, evaluated, stdout, heap, instances>>

NextMidpoint == CalculateMidpoint

SpecMidpoint == InitMidpoint /\ [][NextMidpoint]_vars

(***************************************************************************)
(* aspects.py: calculate_aspect_patterns.                                  *)
(***************************************************************************)
\* aspects_df[aspects_df['aspect'] == name]: the rows of one aspect type, in
\* the order of the table.
rows_with_aspect(aspects_df, name) ==
    LET Matches(entry) == entry.row.aspect = name
    IN  SelectSeq(aspects_df, Matches)

\* Lines 287-290: the set of the bodies named by the Trine rows.
trine_planets(trines) ==
    UNION {{trines[k].row.planet1, trines[k].row.planet2} : k \in 1 .. Len(trines)}

\* list(a_set)[:3]: a set of strings is iterated in the order of the hashes
\* of its elements, which differ from one interpreter process to the next,
\* so the list is any three elements of the set in any order (all of them,
\* if there are fewer).
list_of_set_first_3(a_set) ==
    LET n == Min(3, Cardinality(a_set))
    IN  {l \in [1 .. n -> a_set] : \A a, b \in 1 .. n : a # b => l[a] # l[b]}

\* Variant: three Trine rows are enough.
has_grand_trine_by_count(trines) == Len(trines) >= 3

\* Lines 286 and 293.
has_grand_trine(trines) ==
    Len(trines) >= 3 /\ Cardinality(trine_planets(trines)) >= 3

\* Lines 276-319: the lists the call can return.
calculate_aspect_patterns(aspects_df) ==
    IF Len(aspects_df) = 0 THEN {<<>>}
    ELSE LET trines == rows_with_aspect(aspects_df, "Trine")
             squares == rows_with_aspect(aspects_df, "Square")
             oppositions == rows_with_aspect(aspects_df, "Opposition")
             grand_trine ==
                 IF has_grand_trine(trines)
                 THEN {<<[pattern |-> "Grand Trine",
                          planets |-> first_3,
                          description |-> "A harmonious triangle of energy flow"]>> :
                          first_3 \in list_of_set_first_3(trine_planets(trines))}
                 ELSE {<<>>}
             t_square ==
                 IF Len(squares) >= 2 /\ Len(oppositions) >= 1
                 THEN <<[pattern |-> "T-Square",
                         planets |-> <<"Unknown">>,
                         description |-> "A challenging pattern requiring action"]>>
                 ELSE <<>>
             grand_cross ==
                 IF Len(squares) >= 4 /\ Len(oppositions) >= 2
                 THEN <<[pattern |-> "Grand Cross",
                         planets |-> <<"Unknown">>,
                         description |-> "A highly dynamic and challenging pattern"]>>
                 ELSE <<>>
         IN  {patterns \o t_square \o grand_cross : patterns \in grand_trine}

\* The record find_aspects_between_planets returns for two bodies that are
\* exactly the given number of degrees apart.
ExactAspectRow(planet1, planet2, degrees) ==
    find_aspects_between_planets(MAJOR_ASPECTS, planet1, Degrees(0), planet2,
                                 Degrees(degrees))[1]

\* Trine rows among four bodies.
TrineRowValues ==
    {ExactAspectRow(pair[1], pair[2], 120) :
        pair \in {<<"Sun", "Moon">>, <<"Mars", "Venus">>, <<"Sun", "Mars">>}}

\* n times the same row.
Repeated(row, n) == [k \in 1 .. n |-> row]

\* Tables of Squares, Trines and Oppositions, with or without a Conjunction
\* in front.
PatternTables ==
    {DataFrame((IF conjunction THEN <<ExactAspectRow("Sun", "Moon", 0)>> ELSE <<>>)
                   \o Repeated(ExactAspectRow("Mercury", "Jupiter", 90), squares)
                   \o trines
                   \o Repeated(ExactAspectRow("Saturn", "Pluto", 180), oppositions)) :
        conjunction \in BOOLEAN,
        squares \in 0 .. MaxSquares,
        trines \in SeqsUpTo(TrineRowValues, MaxTrines),
        oppositions \in 0 .. MaxOppositions}

PatternCalls == [op : {"calculate_aspect_patterns"}, aspects_df : PatternTables]

InitPatterns ==
    /\ pc = "call"
    /\ call \in PatternCalls
    /\ ret = <<>>
    /\ NoLoop

CalculateAspectPatterns ==
    /\ pc = "call"
    /\ call.op = "calculate_aspect_patterns"
    /\ ret' \in calculate_aspect_patterns(call.aspects_df)
    /\ pc' = "done"
    /\ UNCHANGED <<call, i, j, aspects_list, evaluated, stdout, heap, instances>>

NextPatterns == CalculateAspectPatterns

SpecPatterns == InitPatterns /\ [][NextPatterns]_vars

(***************************************************************************)
(* The whole library.                                                      *)
(***************************************************************************)
Init ==
    InitAspects \/ InitZodiac \/ InitCompatibility \/ InitHouses \/ InitTables
        \/ InitAspectTables \/ InitCalculators \/ InitMidpoint
        \/ InitPatterns

Next ==
    NextAspects \/ NextZodiac \/ NextCompatibility \/ NextHouses \/ NextTables
        \/ NextAspectTables \/ NextCalculators \/ NextMidpoint
        \/ NextPatterns

Spec == Init /\ [][Next]_vars

(***************************************************************************)
(* Claims about the aspect functions, checked under SpecAspects.           *)
(***************************************************************************)
FindDone == pc = "done" /\ call.op = "find_aspects_between_planets"
DistanceDone == pc = "done" /\ call.op = "calculate_angular_distance"

\* The names of the aspects of a list of records.
AspectNames(records) == {records[k].aspect : k \in 1 .. Len(records)}

\* The multiplier of a body in tenths: its table entry, 1.0 without one.
Multiplier(body) ==
    CASE body \in {"Sun", "Moon"} -> 15
      [] body \in {"Jupiter", "Saturn"} -> 12
      [] body \in {"Uranus", "Neptune", "Pluto"} -> 8
      [] OTHER -> 10

\* |distance - X.degrees| <= X.orb * max(mult(a), mult(b)), in tenths of a unit.
InOrbOf(X, distance, a, b) ==
    LET m == IF Multiplier(a) >= Multiplier(b) THEN Multiplier(a) ELSE Multiplier(b)
        off == IF distance >= X.degrees THEN distance - X.degrees ELSE X.degrees - distance
    IN  10 * off <= X.orb * Deg * m

\* C1: find_aspects_between_planets returns a record for a catalogue entry X
\* if and only if |angular_distance - X.degrees| <= X.orb * max(mult(p1), mult(p2)),
\* with mult 1.0 for a body absent from the table; every such entry is
\* returned, each once, so a pair yields zero, one or several records.
C1_RecordIffWithinOrb ==
    FindDone =>
        LET catalogue == AspectsCalculatorInit(call.include_minor_aspects)
            distance == calculate_angular_distance(call.pos1, call.pos2)
            matching == {k \in 1 .. Len(catalogue) :
                            InOrbOf(catalogue[k], distance, call.planet1, call.planet2)}
        IN  /\ AspectNames(ret) = {catalogue[k].name : k \in matching}
            /\ Len(ret) = Cardinality(matching)

\* Several entries match one pair, one of the bodies being absent from the table.
C1_Witness ==
    /\ FindDone
    /\ Len(ret) >= 2
    /\ "Chiron" \in {call.planet1, call.planet2}

\* A record with its planet1 and planet2 fields exchanged.
Swapped(rec) == [rec EXCEPT !.planet1 = rec.planet2, !.planet2 = rec.planet1]

\* C2: find_aspects_between_planets(A,pA,B,pB) and (B,pB,A,pA) return the same
\* aspects in the same order with the same type, orb_used, orb_difference,
\* exactness and angular_distance; only planet1 and planet2 are exchanged.
C2_AspectSymmetry ==
    FindDone =>
        LET other == find_aspects_between_planets(
                         AspectsCalculatorInit(call.include_minor_aspects),
                         call.planet2, call.pos2, call.planet1, call.pos1)
        IN  /\ Len(other) = Len(ret)
            /\ \A k \in 1 .. Len(ret) : other[k] = Swapped(ret[k])

\* Records are returned for two bodies with different multipliers at different places.
C2_Witness ==
    /\ FindDone
    /\ ret # <<>>
    /\ OrbAdjustmentGet(call.planet1) < OrbAdjustmentGet(call.planet2)
    /\ call.pos1 # call.pos2

\* C3: for all positions a and b, negative and >= 360 included,
\* calculate_angular_distance(a,b) = calculate_angular_distance(b,a) and the
\* result lies in [0, 180].
C3_DistanceSymmetricInRange ==
    DistanceDone =>
        /\ ret = calculate_angular_distance(call.pos2, call.pos1)
        /\ 0 <= ret
        /\ ret <= Degrees(180)

\* A distance between a negative position and one beyond 360 degrees.
C3_Witness ==
    /\ DistanceDone
    /\ call.pos1 < 0
    /\ call.pos2 >= Degrees(360)
    /\ ret > 0

\* C9: for every catalogue aspect X and two bodies whose angular distance is
\* exactly X.degrees, a record for X is returned with orb_difference 0 and
\* exactness 100; 0/90 and 45/135 match Square, 0/0 Conjunction, 0/60 Sextile,
\* 0/120 Trine, 0/180 Opposition.
ExactRecord(name) ==
    \E k \in 1 .. Len(ret) :
        /\ ret[k].aspect = name
        /\ ret[k].orb_difference = 0
        /\ ret[k].exactness = <<100, 1>>

C9_ExactAspectIsFound ==
    FindDone =>
        LET catalogue == AspectsCalculatorInit(call.include_minor_aspects)
            distance == calculate_angular_distance(call.pos1, call.pos2)
            At(a, b) == call.pos1 = Degrees(a) /\ call.pos2 = Degrees(b)
        IN  /\ \A k \in 1 .. Len(catalogue) :
                   distance = catalogue[k].degrees => ExactRecord(catalogue[k].name)
            /\ (At(0, 90) \/ At(45, 135)) => ExactRecord("Square")
            /\ At(0, 0) => ExactRecord("Conjunction")
            /\ At(0, 60) => ExactRecord("Sextile")
            /\ At(0, 120) => ExactRecord("Trine")
            /\ At(0, 180) => ExactRecord("Opposition")

\* Longitudes 45 and 135 give an exact Square.
C9_Witness ==
    /\ FindDone
    /\ call.pos1 = Degrees(45)
    /\ call.pos2 = Degrees(135)
    /\ ExactRecord("Square")

\* C10: with only the major aspects enabled, two bodies 45 degrees apart
\* yield an empty list for every pair of body names, luminaries included.
C10_NoMajorAspectAt45 ==
    (/\ FindDone
     /\ ~call.include_minor_aspects
     /\ calculate_angular_distance(call.pos1, call.pos2) = Degrees(45))
        => ret = <<>>

\* Sun and Moon at 0 and 45 degrees, major aspects only.
C10_Witness ==
    /\ FindDone
    /\ ~call.include_minor_aspects
    /\ call.planet1 = "Sun" /\ call.planet2 = "Moon"
    /\ call.pos1 = Degrees(0) /\ call.pos2 = Degrees(45)
    /\ ret = <<>>

\* C21: every record returned by find_aspects_between_planets, for any
\* bodies, positions and catalogue, satisfies 0 <= orb_difference <= orb_used,
\* 0 <= exactness <= 100 and 0 <= angular_distance <= 180.
C21_RecordInvariants ==
    FindDone =>
        \A k \in 1 .. Len(ret) :
            /\ 0 <= ret[k].orb_difference
            /\ ret[k].orb_difference <= ret[k].orb_used
            /\ 0 <= ret[k].exactness[1]
            /\ ret[k].exactness[2] > 0
            /\ ret[k].exactness[1] <= 100 * ret[k].exactness[2]
            /\ 0 <= ret[k].angular_distance
            /\ ret[k].angular_distance <= Degrees(180)

\* A record on the very edge of its orb (exactness 0) for a first position
\* outside [0, 360): a Quintile of the Sun at 75 degrees.
C21_Witness ==
    /\ FindDone
    /\ call.pos1 \notin 0 .. Degrees(360)
    /\ \E k \in 1 .. Len(ret) :
           /\ ret[k].aspect = "Quintile"
           /\ ret[k].angular_distance = Degrees(75)
           /\ ret[k].orb_difference = ret[k].orb_used
           /\ ret[k].exactness = <<0, 1>>

\* C29: with only the major aspects enabled, find_aspects_between_planets
\* returns at most one record for any pair of body names and any two
\* positions: the five major orb windows never overlap, even at the largest
\* orb multiplier 1.5.
C29_MajorWindowsDisjoint ==
    (FindDone /\ ~call.include_minor_aspects) =>
        /\ Len(ret) <= 1
        /\ \A a, b \in 1 .. Len(MAJOR_ASPECTS) :
               a < b => MAJOR_ASPECTS[a].degrees + Tenths(MAJOR_ASPECTS[a].orb * 15)
                            < MAJOR_ASPECTS[b].degrees - Tenths(MAJOR_ASPECTS[b].orb * 15)

\* The Sun 69 degrees from a body without a multiplier: on the outer edge of
\* the widest Sextile window, 9 degrees below the Square window's start at
\* 78, one record.
C29_Witness ==
    /\ FindDone
    /\ ~call.include_minor_aspects
    /\ call.planet1 = "Sun"
    /\ call.planet2 = "Chiron"
    /\ calculate_angular_distance(call.pos1, call.pos2) = Degrees(69)
    /\ Len(ret) = 1
    /\ ret[1].aspect = "Sextile"
    /\ ret[1].orb_difference = ret[1].orb_used

(***************************************************************************)
(* Claims about calculate_all_aspects, checked under SpecAllAspects.       *)
(***************************************************************************)
\* find_aspects_between_planets over the listed <<i, j>> row pairs, concatenated.
RECURSIVE AspectsOfPairs(_)
AspectsOfPairs(pairs) ==
    IF pairs = <<>> THEN <<>>
    ELSE find_aspects_between_planets(
             AspectsCalculatorInit(call.include_minor_aspects),
             planets[Head(pairs)[1] + 1], positions[Head(pairs)[1] + 1],
             planets[Head(pairs)[2] + 1], positions[Head(pairs)[2] + 1])
         \o AspectsOfPairs(Tail(pairs))

\* C8: calculate_all_aspects over n rows evaluates each unordered pair of rows
\* exactly once, as (row i, row j) with i < j: n(n-1)/2 evaluations, no row
\* paired with itself, no pair twice or in both orders; the result is the
\* concatenation of find_aspects_between_planets over those pairs, planet1
\* from the earlier row and planet2 from the later one.
C8_EachPairOnce ==
    LET n == Len(planets)
        count == Len(evaluated)
    IN  /\ pc \in {"loop", "done"} =>
               /\ \A k \in 1 .. count :
                      /\ 0 <= evaluated[k][1]
                      /\ evaluated[k][1] < evaluated[k][2]
                      /\ evaluated[k][2] < n
               /\ \A k, l \in 1 .. count :
                      evaluated[k] \in {evaluated[l], <<evaluated[l][2], evaluated[l][1]>>}
                          => k = l
               /\ aspects_list = AspectsOfPairs(evaluated)
        /\ pc = "done" =>
               /\ 2 * count = n * (n - 1)
               /\ {evaluated[k] : k \in 1 .. count} =
                      {<<a, b>> \in (0 .. n - 1) \X (0 .. n - 1) : a < b}
               /\ ret = aspects_list

\* Three rows, three evaluations, and records from more than one pair.
C8_Witness ==
    /\ pc = "done"
    /\ call.op = "calculate_all_aspects"
    /\ Len(planets) = 3
    /\ Len(evaluated) = 3
    /\ Len(ret) >= 2
    /\ \E k \in 1 .. Len(ret) : ret[k].planet1 # ret[k].planet2

(***************************************************************************)
(* Claims about ecliptic_to_zodiac, checked under SpecZodiac.              *)
(***************************************************************************)
ZodiacEnded == pc # "call" /\ call.op = "ecliptic_to_zodiac"

\* C6: for every longitude L, negative L included, and every integer k,
\* ecliptic_to_zodiac(L + 360*k) returns the same sign name as
\* ecliptic_to_zodiac(L).
C6_Periodicity ==
    ZodiacEnded =>
        LET of_base == ecliptic_to_zodiac(call.base)
        IN  /\ pc = "done"
            /\ ~Raised(of_base)
            /\ ret.name = of_base.name

\* C7: for every longitude L (negative, zero or >= 360) ecliptic_to_zodiac
\* never fails: the sign index is an integer in 0..11, the degree is in
\* [0, 30), and 30 * sign_index + degree is L mod 360, so that 0 is Aries,
\* 30 is Taurus and 330 is Pisces.
C7_SignIndexInRange ==
    ZodiacEnded =>
        LET index == sign_index(call.ecliptic_longitude)
            At(d) == call.ecliptic_longitude = Degrees(d)
        IN  /\ pc = "done"
            /\ index \in 0 .. 11
            /\ ret.name = ZODIAC_SIGNS[index + 1].name
            /\ 0 <= ret.degree
            /\ ret.degree < Degrees(30)
            /\ Degrees(30) * index + ret.degree = call.ecliptic_longitude % Degrees(360)
            /\ At(0) => ret.name = "Aries"
            /\ At(30) => ret.name = "Taurus"
            /\ At(330) => ret.name = "Pisces"

\* C11: the position string is the whole degrees of the degree within the
\* sign (0 .. 29), the degree mark, the arc-minutes as two digits (0 .. 59),
\* an apostrophe, a space and the symbol of the sign; degrees and minutes
\* are cut off, never rounded.  45.5 gives 15 30 in Taurus, 120.25 gives
\* 0 15 in Leo and 330.75 gives 0 45 in Pisces.
C11_PositionString ==
    (pc = "done" /\ call.op = "ecliptic_to_zodiac") =>
        LET L == call.ecliptic_longitude % Degrees(360)
            within == L % Degrees(30)
            whole == within \div Deg
            arcmin == ((within % Deg) * 60) \div Deg
            Two(n) == <<DecimalDigits[(n \div 10) + 1], DecimalDigits[(n % 10) + 1]>>
        IN  /\ whole \in 0 .. 29
            /\ arcmin \in 0 .. 59
            /\ ret.position_string =
                   (IF whole < 10 THEN <<DecimalDigits[whole + 1]>> ELSE Two(whole))
                       \o <<"U+00B0">> \o Two(arcmin)
                       \o <<"'", " ", ZODIAC_SIGNS[(L \div Degrees(30)) + 1].symbol>>
            /\ (call.ecliptic_longitude = Degrees(91) \div 2
                    => ret.position_string = <<"1", "5", "U+00B0", "3", "0", "'", " ", "U+2649">>)
            /\ (call.ecliptic_longitude = Degrees(481) \div 4
                    => ret.position_string = <<"0", "U+00B0", "1", "5", "'", " ", "U+264C">>)
            /\ (call.ecliptic_longitude = Degrees(1323) \div 4
                    => ret.position_string = <<"0", "U+00B0", "4", "5", "'", " ", "U+2653">>)

\* 330.875 degrees, 0 degrees 52.5 minutes of Pisces, is written with 52 minutes.
C11_Witness ==
    /\ pc = "done"
    /\ call.op = "ecliptic_to_zodiac"
    /\ call.ecliptic_longitude = Degrees(2647) \div 8
    /\ ret.position_string = <<"0", "U+00B0", "5", "2", "'", " ", "U+2653">>

(***************************************************************************)
(* Claims about the Equal House system, checked under SpecHouses.          *)
(***************************************************************************)
EqualHousesDone == pc = "done" /\ call.op = "calculate_equal_houses"
PlanetHouseDone == pc = "done" /\ call.op = "determine_planet_house"

\* The house after n, house 12 wrapping to house 1.
NextHouse(n) == IF n < 12 THEN n + 1 ELSE 1

\* C4: calculate_equal_houses(asc) returns exactly the houses 1..12 with
\* cusp[n] = (asc + (n-1)*30) mod 360 for every ascendant, each cusp 30
\* degrees after the previous one modulo 360; for asc = 75 the cusps are
\* 75, 105, 135, 165, 195, 225, 255, 285, 315, 345, 15, 45.
C4_EqualCusps ==
    EqualHousesDone =>
        /\ DOMAIN ret = 1 .. 12
        /\ \A n \in 1 .. 12 :
               /\ ret[n] = Round((call.ascendant + (n - 1) * Degrees(30)) % Degrees(360))
               /\ (ret[NextHouse(n)] - ret[n]) % Degrees(360) = Degrees(30)
        /\ call.ascendant = Degrees(75) =>
               \A n \in 1 .. 12 :
                   ret[n] = Degrees(<<75, 105, 135, 165, 195, 225, 255, 285, 315, 345, 15, 45>>[n])

\* The cusps of ascendant 75, houses 11 and 12 past 0 degrees.
C4_Witness ==
    /\ EqualHousesDone
    /\ call.ascendant = Degrees(75)
    /\ ret[10] = Degrees(345)
    /\ ret[11] = Degrees(15)

\* C5: with cusps = calculate_equal_houses(ascendant),
\* determine_planet_house(cusps[n], cusps) = n for every ascendant and every
\* n in 1..12, the house whose span crosses 0 degrees included; ascendant 75
\* and longitude 255 give house 7.
C5_CuspStartsItsHouse ==
    (PlanetHouseDone /\ call.house_system = "equal") =>
        /\ call.house_cusps = calculate_equal_houses(call.ascendant)
        /\ \A n \in 1 .. 12 : call.planet_longitude = call.house_cusps[n] => ret = n
        /\ (call.ascendant = Degrees(75) /\ call.planet_longitude = Degrees(255)) => ret = 7

\* A longitude on the cusp of the house whose span crosses 0 degrees.
C5_Witness ==
    /\ PlanetHouseDone
    /\ call.house_system = "equal"
    /\ call.planet_longitude = call.house_cusps[ret]
    /\ call.house_cusps[ret] > call.house_cusps[NextHouse(ret)]
    /\ call.house_cusps[NextHouse(ret)] > 0

\* C20: for cusps of the Equal or Whole Sign system from any ascendant and
\* for any longitude L, determine_planet_house returns the one house n in
\* 1..12 with (L mod 360 - cusp[n]) mod 360 < 30, that is, L lies in
\* [cusp[n], cusp[n+1]) along the circle, house 12 wrapping to cusp[1]; the
\* loop always finds that house, so the default of house 1 is never reached.
C20_HouseOfLongitude ==
    PlanetHouseDone =>
        LET L == call.planet_longitude % Degrees(360)
            cusps == call.house_cusps
        IN  /\ {n \in 1 .. 12 : (L - cusps[n]) % Degrees(360) < Degrees(30)} = {ret}
            /\ \E n \in 1 .. 12 :
                   InHouse(PyMod(call.planet_longitude, Degrees(360)),
                           cusps[n], cusps[NextHouse(n)])

(***************************************************************************)
(* Claims about get_zodiac_compatibility, checked under SpecCompatibility. *)
(***************************************************************************)
\* A call of get_zodiac_compatibility with the names of two signs has returned.
CompatibilityDone ==
    /\ pc = "done"
    /\ call.op = "get_zodiac_compatibility"
    /\ "overall_compatibility" \in DOMAIN ret

\* The element and the quality of a sign by the lower-case form of its name.
SignOf(name) == CHOOSE s \in 1 .. 12 : lower(ZODIAC_SIGNS[s].name) = lower(name)
ElementOf(name) == ZODIAC_SIGNS[SignOf(name)].element
QualityOf(name) == ZODIAC_SIGNS[SignOf(name)].quality

\* C12: for every ordered pair of signs the element pair and the quality
\* pair are in their tables in one of the two orders, so the default
\* 'Medium' is never used, and the element, quality and overall
\* compatibility of (s1, s2) and of (s2, s1) are the same; Fire with Water
\* is Low, Earth with Water High, Fire with Air High, Earth with Air Low.
C12_TablesCoverEveryPair ==
    \A a \in SignNames \ {"Ophiuchus"}, b \in SignNames \ {"Ophiuchus"} :
        (CompatibilityDone /\ call.sign1 = a /\ call.sign2 = b) =>
            LET elements == {ElementOf(a), ElementOf(b)}
                back == get_zodiac_compatibility(b, a)
            IN  /\ compatibility_pair(element_compatibility, ElementOf(a), ElementOf(b))
                       \in DOMAIN element_compatibility
                /\ compatibility_pair(quality_compatibility, QualityOf(a), QualityOf(b))
                       \in DOMAIN quality_compatibility
                /\ ret.element_compatibility = back.element_compatibility
                /\ ret.quality_compatibility = back.quality_compatibility
                /\ ret.overall_compatibility = back.overall_compatibility
                /\ (elements = {"Fire", "Water"} => ret.element_compatibility = "Low")
                /\ (elements = {"Earth", "Water"} => ret.element_compatibility = "High")
                /\ (elements = {"Fire", "Air"} => ret.element_compatibility = "High")
                /\ (elements = {"Earth", "Air"} => ret.element_compatibility = "Low")

\* Pisces (Water, Mutable) with Aries (Fire, Cardinal): both pairs are in
\* the tables in the reverse order only.
C12_Witness ==
    /\ CompatibilityDone
    /\ call.sign1 = "Pisces"
    /\ call.sign2 = "Aries"
    /\ <<"Water", "Fire">> \notin DOMAIN element_compatibility
    /\ <<"Mutable", "Cardinal">> \notin DOMAIN quality_compatibility
    /\ ret.element_compatibility = "Low"
    /\ ret.quality_compatibility = "High"


\* The score of a level: High 3, Medium 2, Low 1.
Score(level) == CASE level = "High" -> 3 [] level = "Medium" -> 2 [] level = "Low" -> 1

\* C17: the overall compatibility is the band of the average of the element
\* and quality scores: High iff the average is at least 2.5, Medium iff it
\* is at least 1.5 and below 2.5, Low otherwise; so it is Low only when both
\* parts are Low, and High only when one part is High and the other at
\* least Medium.
C17_OverallIsBandOfAverage ==
    CompatibilityDone =>
        LET element == Score(ret.element_compatibility)
            quality == Score(ret.quality_compatibility)
        IN  /\ ret.overall_compatibility = "High" <=> 10 * (element + quality) >= 2 * 25
            /\ ret.overall_compatibility = "Medium" <=>
                   (10 * (element + quality) >= 2 * 15 /\ 10 * (element + quality) < 2 * 25)
            /\ ret.overall_compatibility = "Low" <=> 10 * (element + quality) < 2 * 15
            /\ (ret.overall_compatibility = "Low" => (element = 1 /\ quality = 1))
            /\ (ret.overall_compatibility = "High" =>
                    \/ element = 3 /\ quality >= 2
                    \/ quality = 3 /\ element >= 2)

\* Aries with Scorpio: Fire with Water and Cardinal with Fixed are both Low.
C17_Witness ==
    /\ CompatibilityDone
    /\ ret.element_compatibility = "Low"
    /\ ret.quality_compatibility = "Low"
    /\ ret.overall_compatibility = "Low"


(***************************************************************************)
(* Claims about calculate_houses, checked under SpecHouses.                *)
(***************************************************************************)
\* A call of calculate_houses has ended, by returning or by raising.
HousesEnded == pc \in {"done", "raised"} /\ call.op = "calculate_houses"

\* The names of the implemented systems in every case the callers spell them.
Spellings(system) ==
    CASE system = "equal" -> {"equal", "Equal"}
      [] system = "whole" -> {"whole", "WHOLE"}
      [] system = "placidus" -> {"placidus", "Placidus"}

\* C13: calculate_houses with a house system name other than 'equal',
\* 'whole' or 'placidus' in any case does not raise and returns exactly
\* the cusps of calculate_equal_houses(ascendant), whatever midheaven and
\* latitude are.
C13_UnknownSystemIsEqualHouse ==
    (/\ HousesEnded
     /\ call.house_system \notin
            Spellings("equal") \cup Spellings("whole") \cup Spellings("placidus")) =>
        /\ pc = "done"
        /\ ret = calculate_equal_houses(call.ascendant)
        /\ \A n \in 1 .. 12 : ret[n] = equal_cusp(call.ascendant, n)

\* 'koch' with a midheaven and without a latitude.
C13_Witness ==
    /\ HousesEnded
    /\ call.house_system = "koch"
    /\ call.midheaven # None
    /\ call.latitude = None
    /\ call.ascendant = Degrees(45)
    /\ pc = "done"
    /\ ret[1] = Degrees(45)
    /\ ret[12] = Degrees(15)
    /\ Len(stdout) = 1

\* C14: 'placidus' raises, returning no cusps, whenever the midheaven is
\* absent or the latitude is absent, and returns the Placidus cusps when
\* both are present; 'equal' and 'whole' never raise for an absent
\* midheaven or latitude.
C14_PlacidusNeedsBoth ==
    HousesEnded =>
        /\ (call.house_system \in Spellings("placidus") =>
               IF call.midheaven = None \/ call.latitude = None
               THEN pc = "raised" /\ DOMAIN ret = {"exception"}
               ELSE /\ pc = "done"
                    /\ ret = calculate_placidus_houses(call.ascendant, call.midheaven[1],
                                                      call.latitude[1]))
        /\ (call.house_system \in Spellings("equal") \cup Spellings("whole") =>
               pc = "done" /\ DOMAIN ret = 1 .. 12)

\* 'placidus' with a midheaven and without a latitude raises.
C14_Witness ==
    /\ HousesEnded
    /\ call.house_system = "Placidus"
    /\ call.midheaven # None
    /\ call.latitude = None
    /\ pc = "raised"


(***************************************************************************)
(* Claims about the functions that take a table, checked under SpecTables. *)
(***************************************************************************)
RECURSIVE SumTo(_, _)
SumTo(counts, n) == IF n = 0 THEN 0 ELSE counts[n] + SumTo(counts, n - 1)

\* C15: calculate_all_aspects, add_house_positions and
\* calculate_house_strengths each raise, with no partial result and no
\* longitude put in its place, whenever the table has no Ecliptic_Longitude
\* column; with the column they do not raise.
C15_MissingColumnRaises ==
    call.op \in {"calculate_all_aspects", "add_house_positions",
                 "calculate_house_strengths"} =>
        IF ~call.planetary_data.has_Ecliptic_Longitude
        THEN /\ pc \in {"call", "raised"}
             /\ pc = "raised" =>
                    /\ ret = [exception |-> "ValueError"]
                    /\ aspects_list = <<>>
                    /\ evaluated = <<>>
        ELSE /\ pc # "raised"
             /\ (pc = "done" /\ call.op = "add_house_positions") =>
                    /\ Len(ret.rows) = Len(call.planetary_data.rows)
                    /\ \A k \in 1 .. Len(ret.rows) :
                           /\ ret.rows[k].Ecliptic_Longitude =
                                  call.planetary_data.rows[k].Ecliptic_Longitude
                           /\ ret.rows[k].House \in 1 .. 12
             /\ (pc = "done" /\ call.op = "calculate_house_strengths") =>
                    SumTo(ret, 12) = Len(call.planetary_data.rows)

\* calculate_house_strengths of two rows that have no longitude has raised.
C15_Witness ==
    /\ pc = "raised"
    /\ call.op = "calculate_house_strengths"
    /\ ~call.planetary_data.has_Ecliptic_Longitude
    /\ Len(call.planetary_data.rows) = 2
    /\ ret = [exception |-> "ValueError"]


(***************************************************************************)
(* Claims about the functions that take a table of aspects, checked under  *)
(* SpecAspectTables.                                                       *)
(***************************************************************************)
StrongestDone == pc = "done" /\ call.op = "get_strongest_aspects"

\* The rows returned are rows of the input, each at most once, in
\* non-decreasing order of orb_difference, none above a row left out; an
\* input without rows is returned as it is.
StrongestRows ==
    LET given == call.aspects_df
        left_out == {given[k] : k \in 1 .. Len(given)} \ {ret[k] : k \in 1 .. Len(ret)}
    IN  /\ \A k \in 1 .. Len(ret) : \E g \in 1 .. Len(given) : ret[k] = given[g]
        /\ \A a, b \in 1 .. Len(ret) : a # b => ret[a].index # ret[b].index
        /\ \A k \in 1 .. Len(ret) - 1 :
               ret[k].row.orb_difference <= ret[k + 1].row.orb_difference
        /\ \A k \in 1 .. Len(ret) : \A out \in left_out :
               ret[k].row.orb_difference <= out.row.orb_difference
        /\ (Len(given) = 0 => ret = given)

SummaryDone == pc = "done" /\ call.op = "export_aspects_summary"

\* The sum of the counts of a dictionary.
RECURSIVE SumOver(_, _)
SumOver(counts, keys) ==
    IF keys = {} THEN 0
    ELSE LET key == CHOOSE key \in keys : TRUE
         IN  counts[key] + SumOver(counts, keys \ {key})

\* C18: export_aspects_summary of a non-empty list reports total_aspects
\* equal to the number of records, by_type and by_nature counts that each
\* sum to total_aspects, and one strongest_aspect whose orb is the minimum
\* orb_difference of the list and whose aspect name and 'planet1 - planet2'
\* names come from one record having that minimum; for an empty list it
\* returns total_aspects 0 with empty by_type and by_nature and does not
\* fail.
C18_SummaryOfAspects ==
    (call.op = "export_aspects_summary" => pc \in {"call", "done"})
    /\ (SummaryDone =>
           LET given == call.aspects_df
           IN  IF Len(given) = 0
               THEN /\ ret.total_aspects = 0
                    /\ DOMAIN ret.by_type = {}
                    /\ DOMAIN ret.by_nature = {}
               ELSE /\ ret.total_aspects = Len(given)
                    /\ SumOver(ret.by_type, DOMAIN ret.by_type) = ret.total_aspects
                    /\ SumOver(ret.by_nature, DOMAIN ret.by_nature) = ret.total_aspects
                    /\ \A k \in 1 .. Len(given) :
                           ret.strongest_aspect.orb <= given[k].row.orb_difference
                    /\ \E k \in 1 .. Len(given) :
                           /\ given[k].row.orb_difference = ret.strongest_aspect.orb
                           /\ given[k].row.aspect = ret.strongest_aspect.aspect
                           /\ ret.strongest_aspect.planets =
                                  <<given[k].row.planet1, " - ", given[k].row.planet2>>)

\* Three aspects of two types, the smallest orb_difference in the last row.
C18_Witness ==
    /\ SummaryDone
    /\ Len(call.aspects_df) = 3
    /\ call.aspects_df[1].row.orb_difference > call.aspects_df[3].row.orb_difference
    /\ call.aspects_df[2].row.orb_difference > call.aspects_df[3].row.orb_difference
    /\ ret.total_aspects = 3
    /\ ret.by_type = [Conjunction |-> 1, Square |-> 2]
    /\ ret.strongest_aspect.aspect = "Square"
    /\ ret.strongest_aspect.planets = <<"Mars", " - ", "Venus">>


(***************************************************************************)
(* Claims about AspectsCalculator objects, checked under SpecCalculators.  *)
(***************************************************************************)
\* The names of the aspect types of a catalogue.
TypeNames(catalogue) == {catalogue[n].name : n \in 1 .. Len(catalogue)}

MajorTypeNames == {"Conjunction", "Sextile", "Square", "Trine", "Opposition"}

\* C19: there is no shared mutable state.  Constructing a calculator with
\* include_minor_aspects = True leaves the class-level MAJOR_ASPECTS and
\* the catalogue of every other instance as they were, so an instance
\* made with False always has exactly the 5 major aspect types and one made
\* with True exactly the 13 major and minor types, and the result of a
\* query depends on its arguments and that flag only, not on earlier calls.
C19_NoSharedMutableState ==
    /\ heap[MAJOR_ASPECTS_ref] = MAJOR_ASPECTS
    /\ TypeNames(heap[MAJOR_ASPECTS_ref]) = MajorTypeNames
    /\ \A self \in 1 .. Len(instances) :
           LET catalogue == heap[instances[self].aspects]
           IN  IF instances[self].include_minor_aspects
               THEN /\ Len(catalogue) = 13
                    /\ Cardinality(TypeNames(catalogue)) = 13
                    /\ TypeNames(catalogue) =
                           MajorTypeNames \cup TypeNames(MINOR_ASPECTS)
               ELSE /\ Len(catalogue) = 5
                    /\ TypeNames(catalogue) = MajorTypeNames
    /\ pc = "queried" =>
           ret = find_aspects_between_planets(
                     IF instances[call.self].include_minor_aspects
                     THEN MAJOR_ASPECTS \o MINOR_ASPECTS ELSE MAJOR_ASPECTS,
                     call.arguments.planet1, call.arguments.pos1,
                     call.arguments.planet2, call.arguments.pos2)

\* A calculator of major aspects only, queried at 45 degrees after two
\* calculators with the minor aspects were made, finds no Semisquare.
C19_Witness ==
    /\ pc = "queried"
    /\ Len(instances) = 3
    /\ ~instances[1].include_minor_aspects
    /\ instances[2].include_minor_aspects
    /\ instances[3].include_minor_aspects
    /\ call.self = 1
    /\ call.constructed = 3
    /\ call.arguments.pos2 = Degrees(45)
    /\ ret = <<>>


(***************************************************************************)
(* Claims about calculate_midpoint, checked under SpecMidpoint.            *)
(***************************************************************************)
MidpointDone == pc = "done" /\ call.op = "calculate_midpoint"

\* The distance between two points of the circle, along the shorter way.
OnCircle(x, y) ==
    LET d == (x - y) % Degrees(360)
    IN  IF d <= Degrees(180) THEN d ELSE Degrees(360) - d

\* The value the two formulas give for the normalised positions a and b.
MidpointFormula(a, b) ==
    IF Abs(b - a) <= Degrees(180)
    THEN ((a + b) \div 2) % Degrees(360)
    ELSE ((a + b + Degrees(360)) \div 2) % Degrees(360)

WholeSignDone == pc = "done" /\ call.op = "calculate_whole_sign_houses"

PlacidusDone == pc = "done" /\ call.op = "calculate_placidus_houses"

\* The cusp lies on the short arc from the cusp a to the cusp b, at
\* thirds / 3 of that arc from a.
AtThirdsOfShortArc(cusp, a, b, thirds) ==
    /\ 3 * OnCircle(a, cusp) = thirds * OnCircle(a, b)
    /\ 3 * OnCircle(cusp, b) = (3 - thirds) * OnCircle(a, b)

\* The quadrants: the angular cusp that opens each, the one that closes it
\* and the two intermediate cusps between them.
Quadrants == {<<1, 4, 2, 3>>, <<4, 7, 5, 6>>, <<7, 10, 8, 9>>, <<10, 1, 11, 12>>}

\* C23: under the simplified Placidus system the intermediate cusps of each
\* quadrant lie on the short (<= 180 degree) arc between the two angular
\* cusps that bound that quadrant, at one third and two thirds of that arc:
\* cusps 2 and 3 between cusp 1 and cusp 4, cusps 5 and 6 between cusp 4 and
\* cusp 7, cusps 8 and 9 between cusp 7 and cusp 10, cusps 11 and 12 between
\* cusp 10 and cusp 1.
C23_IntermediateCusps ==
    PlacidusDone =>
        \A q \in Quadrants :
            /\ AtThirdsOfShortArc(ret[q[3]], ret[q[1]], ret[q[2]], 1)
            /\ AtThirdsOfShortArc(ret[q[4]], ret[q[1]], ret[q[2]], 2)

\* C24: calculate_placidus_houses fixes the four angular cusps for all
\* inputs: cusp[1] = ascendant, cusp[10] = midheaven, cusp[7] = (ascendant +
\* 180) mod 360 and cusp[4] = (midheaven + 180) mod 360, so cusp 7 is
\* opposite cusp 1 and cusp 4 is opposite cusp 10, and the result has
\* exactly the keys 1..12.
C24_AngularCusps ==
    PlacidusDone =>
        /\ DOMAIN ret = 1 .. 12
        /\ ret[1] = call.ascendant
        /\ ret[10] = call.midheaven
        /\ ret[7] = Round(call.ascendant + Degrees(180)) % Degrees(360)
        /\ ret[4] = Round(call.midheaven + Degrees(180)) % Degrees(360)
        /\ calculate_angular_distance(ret[1], ret[7]) = Degrees(180)
        /\ calculate_angular_distance(ret[10], ret[4]) = Degrees(180)

\* An ascendant above 360 degrees and a negative midheaven are kept as given.
C24_Witness ==
    /\ PlacidusDone
    /\ call.ascendant = Degrees(375)
    /\ call.midheaven = Degrees(-45)
    /\ ret[1] = Degrees(375)
    /\ ret[7] = Degrees(195)
    /\ ret[10] = Degrees(-45)
    /\ ret[4] = Degrees(135)

\* C28: for cusps produced by calculate_placidus_houses from any ascendant
\* and midheaven in [0, 360) with ascendant # midheaven, the 12 cusps are in
\* circular order, the spans [cusp[n], cusp[n+1]) partitioning the circle, so
\* determine_planet_house(cusps[n], cusps) = n for every n in 1..12 and every
\* house is returned for some longitude.
C28_PlacidusCircularOrder ==
    (/\ PlacidusDone
     /\ call.ascendant \in 0 .. Degrees(360) - 1
     /\ call.midheaven \in 0 .. Degrees(360) - 1
     /\ call.ascendant # call.midheaven)
        => /\ SumTo([n \in 1 .. 12 |-> (ret[NextHouse(n)] - ret[n]) % Degrees(360)], 12)
                  = Degrees(360)
           /\ \A n \in 1 .. 12 : determine_planet_house(ret[n], ret) = n
           /\ \A n \in 1 .. 12 : \E L \in {ret[m] : m \in 1 .. 12} :
                  determine_planet_house(L, ret) = n


(***************************************************************************)
(* Claims about calculate_aspect_patterns, checked under SpecPatterns.     *)
(***************************************************************************)
PatternsDone == pc = "done" /\ call.op = "calculate_aspect_patterns"

\* The number of records of one aspect type in the list given.
RecordsOf(name) ==
    Cardinality({k \in 1 .. Len(call.aspects_df) : call.aspects_df[k].row.aspect = name})

\* The bodies the Trine records of the list name.
TrineBodies ==
    UNION {{call.aspects_df[k].row.planet1, call.aspects_df[k].row.planet2} :
              k \in {k \in 1 .. Len(call.aspects_df) :
                        call.aspects_df[k].row.aspect = "Trine"}}

Reported(name) == \E k \in 1 .. Len(ret) : ret[k].pattern = name

\* What C26 says of the T-Square, the Grand Cross, the empty list and the
\* number of times a pattern is reported.
SquarePatterns ==
    /\ Reported("T-Square") <=> (RecordsOf("Square") >= 2 /\ RecordsOf("Opposition") >= 1)
    /\ Reported("Grand Cross") <=> (RecordsOf("Square") >= 4 /\ RecordsOf("Opposition") >= 2)
    /\ (Len(call.aspects_df) = 0 => ret = <<>>)
    /\ \A a, b \in 1 .. Len(ret) : a # b => ret[a].pattern # ret[b].pattern

\* C26 as stated: calculate_aspect_patterns reports 'Grand Trine' if and
\* only if the aspect list contains at least 3 Trine records, 'T-Square' if
\* and only if it contains at least 2 Square records and at least 1
\* Opposition record, and 'Grand Cross' if and only if it contains at least 4
\* Square records and at least 2 Opposition records; an empty list yields no
\* pattern, and each pattern is reported at most once.
C26_PatternsAsStated ==
    PatternsDone =>
        /\ Reported("Grand Trine") <=> RecordsOf("Trine") >= 3
        /\ SquarePatterns

\* C26, amended: 'Grand Trine' is reported if and only if the list contains
\* at least 3 Trine records and these name at least 3 distinct bodies; the
\* rest as stated.
C26_Patterns ==
    PatternsDone =>
        /\ Reported("Grand Trine") <=>
               (RecordsOf("Trine") >= 3 /\ Cardinality(TrineBodies) >= 3)
        /\ SquarePatterns

\* Four Squares, two Oppositions and three Trines between the same two
\* bodies: a T-Square and a Grand Cross, no Grand Trine.
C26_Witness ==
    /\ PatternsDone
    /\ RecordsOf("Square") = 4
    /\ RecordsOf("Opposition") = 2
    /\ RecordsOf("Trine") = 3
    /\ Cardinality(TrineBodies) = 2
    /\ Len(ret) = 2
    /\ ret[1].pattern = "T-Square"
    /\ ret[2].pattern = "Grand Cross"

\* The distinct bodies of the Trine records in their order of appearance,
\* planet1 then planet2 of each record, record by record.
RECURSIVE InOrderOfAppearance(_, _)
InOrderOfAppearance(k, bodies) ==
    IF k > Len(call.aspects_df) THEN bodies
    ELSE LET row == call.aspects_df[k].row
             Seen(seq, body) == \E n \in 1 .. Len(seq) : seq[n] = body
             with1 == IF Seen(bodies, row.planet1) THEN bodies
                      ELSE Append(bodies, row.planet1)
             with2 == IF Seen(with1, row.planet2) THEN with1
                      ELSE Append(with1, row.planet2)
         IN  InOrderOfAppearance(k + 1, IF row.aspect = "Trine" THEN with2 ELSE bodies)

\* C27: when calculate_aspect_patterns reports a Grand Trine, its 'planets'
\* field holds exactly 3 distinct bodies and they are the first 3 distinct
\* bodies in order of appearance across the Trine records (planet1 then
\* planet2 of each record, record by record), so the same aspect list always
\* yields the same three bodies.
C27_GrandTrineBodies ==
    PatternsDone =>
        \A k \in 1 .. Len(ret) :
            ret[k].pattern = "Grand Trine" =>
                /\ Len(ret[k].planets) = 3
                /\ Cardinality({ret[k].planets[n] : n \in 1 .. 3}) = 3
                /\ {ret[k].planets[n] : n \in 1 .. 3}
                       = {InOrderOfAppearance(1, <<>>)[n] : n \in 1 .. 3}

====
